---- MODULE Spec2Model ----
(***************************************************************************)
(* Model of the Propstack MCP adapter: the retrying request executor       *)
(* (PropstackClient.request) and the paginated accumulations of the        *)
(* composite tools pipeline_summary and match_contacts_to_property.        *)
(***************************************************************************)
EXTENDS Integers, Sequences, FiniteSets, TLC

Min(a, b) == IF a <= b THEN a ELSE b

RECURSIVE Pow2(_)
Pow2(n) == IF n <= 0 THEN 1 ELSE 2 * Pow2(n - 1)

(***************************************************************************)
(* PropstackClient.request                                                 *)
(***************************************************************************)

\* const MAX_RETRIES = 3;
MAX_RETRIES == 3

\* const RETRY_BASE_MS = 1000;
RETRY_BASE_MS == 1000

\* res.headers.get("Retry-After") === null : the header is absent
NoRetryAfter == -1

\* Retry-After header values (seconds) the upstream is taken to send
RetryAfterValues == {NoRetryAfter, 0, 2}

\* HTTP statuses the upstream is taken to answer with
Statuses == {200, 204, 401, 403, 404, 422, 429, 500}

\* messages of the errors fetch() rejects with (transport failures)
TransportMessages == {"fetch failed", "ECONNREFUSED"}

\* let lastError: Error | undefined  (undefined)
NoError == [type |-> "none", status |-> 0, msg |-> "", at |-> -1]

\* new PropstackError(res.status, res.statusText, body, path), thrown on attempt `at`
PropstackError(status, at) ==
    [type |-> "PropstackError", status |-> status, msg |-> "", at |-> at]

\* err instanceof Error ? err : new Error(String(err)), caught on attempt `at`
TransportError(msg, at) ==
    [type |-> "TypeError", status |-> 0, msg |-> msg, at |-> at]

\* what await res.text() / await res.json() rejects with when the body
\* stream breaks off, on attempt `at`
BodyStreamError(at) ==
    [type |-> "TypeError", status |-> 0, msg |-> "terminated", at |-> at]

\* what await res.json() rejects with for a body that is not JSON (an empty
\* body included), on attempt `at`
JsonSyntaxError(at) ==
    [type |-> "SyntaxError", status |-> 0, msg |-> "Unexpected token", at |-> at]

\* new Error(`Request to ${path} failed after ${MAX_RETRIES} retries`)
ExhaustedError ==
    [type |-> "Error", status |-> 0, msg |-> "failed after retries", at |-> -1]

\* what one call of fetch(url, init) can end with
FetchOutcomes ==
    {[kind |-> "response", status |-> s, retryAfter |-> NoRetryAfter, msg |-> ""] :
        s \in Statuses}
    \cup {[kind |-> "response", status |-> 429, retryAfter |-> ra, msg |-> ""] :
        ra \in RetryAfterValues}
    \cup {[kind |-> "reject", status |-> 0, retryAfter |-> NoRetryAfter, msg |-> m] :
        m \in TransportMessages}

\* for (let attempt = 0; attempt <= MAX_RETRIES; attempt++)
LoopContinues_Extra(a) == a <= MAX_RETRIES + 1
LoopContinues(a) == a <= MAX_RETRIES

\* const delay = RETRY_BASE_MS * 2 ** (attempt - 1), slept only if (attempt > 0)
BackoffDelay_Linear(a) == IF a > 0 THEN RETRY_BASE_MS * a ELSE 0
BackoffDelay(a) == IF a > 0 THEN RETRY_BASE_MS * Pow2(a - 1) ELSE 0

\* if (res.status === 429 && attempt < MAX_RETRIES)
RetryStatus(status, a) == status = 429 /\ a < MAX_RETRIES

\* if (retryAfter) await sleep(Number(retryAfter) * 1000)
RetryAfterDelay(ra) == IF ra /= NoRetryAfter THEN ra * 1000 ELSE 0

\* res.ok : the status is in 200..299
ResOk(status) == status >= 200 /\ status <= 299

\* what reading the body of a response can end with: a JSON object or
\* array, the JSON value null, a body that is not JSON (or empty), or a
\* body stream that breaks off
BodyOutcomes == {"object", "null", "invalid", "terminated"}

\* if (res.status === 204) return undefined; return (await res.json()) as T
\* for a body that parses
ResponseValue(status, body) ==
    IF status = 204 THEN "undefined" ELSE IF body = "null" THEN "null" ELSE "json"

\* how request() ends once the body of the response was read (attempt a):
\* throw new PropstackError(...) after await res.text(), or the value or the
\* rejection of await res.json()
BodyResult(status, body, a) ==
    IF body = "terminated" THEN [kind |-> "throw", value |-> "", err |-> BodyStreamError(a)]
    ELSE IF ~ResOk(status)
    THEN [kind |-> "throw", value |-> "", err |-> PropstackError(status, a)]
    ELSE IF body = "invalid"
    THEN [kind |-> "throw", value |-> "", err |-> JsonSyntaxError(a)]
    ELSE [kind |-> "return", value |-> ResponseValue(status, body), err |-> NoError]

VARIABLES
    rPc,        \* position in request(): "loop", "fetch", "retryAfter", "body", "done"
    attempt,    \* the loop variable
    lastError,  \* let lastError
    clock,      \* milliseconds slept so far by this request
    fetchLog,   \* one entry per fetch() call: its outcome and the clock at the call
    pendingRA,  \* Retry-After delay about to be slept (position "retryAfter")
    rRes,       \* res.status of the response whose body is being read (0: none)
    rResult     \* how request() ended: pending, return or throw

reqVars == <<rPc, attempt, lastError, clock, fetchLog, pendingRA, rRes, rResult>>

VARIABLES
    op,          \* the tool running: "pipeline_summary" or "match_contacts_to_property"
    maxArg,      \* args.max_profiles (NoArg when not given)
    upMode,      \* "offset": offset-paged upstream, "any": unconstrained upstream
    upCount,     \* number of items the offset-paged upstream holds
    upScoring,   \* the profiles the upstream serves are active and score above 0
    upEmpties,   \* number of empty pages the upstream has answered this walk with
    wPc,         \* "first" (the fetch before the walk), "walk", "done"
    items,       \* allDeals / allProfiles
    page,        \* let page
    totalCount,  \* let totalCount (pipeline_summary)
    hasMore,     \* let hasMore (match_contacts_to_property)
    lastPer,     \* per_page of the last page request
    lastN,       \* number of items of the last page answer
    lastTotal,   \* total_count of the last page answer
    failedPage,  \* page number whose request threw (0: none)
    failedErr,   \* the error that request threw
    wResult      \* what the tool returned

walkVars == <<op, maxArg, upMode, upCount, upScoring, upEmpties, wPc, items, page, totalCount, hasMore,
              lastPer, lastN, lastTotal, failedPage, failedErr, wResult>>

VARIABLES
    fOp,         \* the fan-out tool running: "full_contact_360" or "property_performance_report"
    fPc,         \* "start", "await" (inside await Promise.allSettled), "done"
    fCalls,      \* per call of the array literal: not issued, pending, fulfilled or rejected
    fOrder,      \* the calls in the order in which they settled
    fSettled,    \* the array Promise.allSettled resolved with
    fResult      \* what the tool returned

fanVars == <<fOp, fPc, fCalls, fOrder, fSettled, fResult>>

VARIABLES
    sProperty,   \* the property fetched in step 1 of match_contacts_to_property
    sProfiles,   \* allProfiles
    sPc,         \* "score" (before step 3), "done"
    sScored,     \* score, maxScore, matches, mismatches computed per active profile
    sResults,    \* results after the sort
    sTop,        \* results.slice(0, 20)
    sResult,     \* what the tool returned
    sUnicode     \* version of the Unicode data of the runtime that runs the tool

scoreVars == <<sProperty, sProfiles, sPc, sScored, sResults, sTop, sResult, sUnicode>>

VARIABLES
    aPipelines,  \* pipelines returned by /deal_pipelines
    aDeals,      \* dealList
    aNow,        \* new Date()
    aPc,         \* "aggregate" (before the lookup is built), "done"
    aStats,      \* stageStats: bucket key -> count, value, deals
    aStale,      \* staleDeals
    aTotals,     \* totalDeals and totalValue
    aResult      \* what the tool returned

aggVars == <<aPipelines, aDeals, aNow, aPc, aStats, aStale, aTotals, aResult>>

VARIABLES
    iArgs,       \* which optional arguments of smart_lead_intake are given
    iPc,         \* the await the handler is suspended at, or "start" / "done"
    iCalls,      \* the client calls issued so far, in order
    iFound,      \* existing.data[0].id of the dedup search (0: no search, or nothing found)
    iWritten,    \* the contact write (PUT or POST) has been fulfilled
    iContactId,  \* contactId (0 while undefined)
    iAction,     \* "created" or "updated"
    iTasks,      \* parallelTasks: the promises pushed, with their state
    iExited,     \* the process was ended by an unhandled rejection
    iResult      \* what the tool returned

intakeVars ==
    <<iArgs, iPc, iCalls, iFound, iWritten, iContactId, iAction, iTasks, iExited, iResult>>

VARIABLES
    tPc,         \* a one-request tool handler: "await" (inside await client.get), "done"
    tResult      \* what the tool returned

toolVars == <<tPc, tResult>>

\* everything but the variables of one component
notReq == <<walkVars, fanVars, scoreVars, aggVars, intakeVars, toolVars>>
notWalk == <<reqVars, fanVars, scoreVars, aggVars, intakeVars, toolVars>>
notFan == <<reqVars, walkVars, scoreVars, aggVars, intakeVars, toolVars>>
notScore == <<reqVars, walkVars, fanVars, aggVars, intakeVars, toolVars>>
notAgg == <<reqVars, walkVars, fanVars, scoreVars, intakeVars, toolVars>>
notIntake == <<reqVars, walkVars, fanVars, scoreVars, aggVars, toolVars>>

vars == <<reqVars, walkVars, fanVars, scoreVars, aggVars, intakeVars, toolVars>>

Pending == [kind |-> "pending", value |-> "", err |-> NoError]
Returned(v) == [kind |-> "return", value |-> v, err |-> NoError]
Thrown(e) == [kind |-> "throw", value |-> "", err |-> e]

ReqInit ==
    /\ rPc = "loop"
    /\ attempt = 0
    /\ lastError = NoError
    /\ clock = 0
    /\ fetchLog = <<>>
    /\ pendingRA = 0
    /\ rRes = 0
    /\ rResult = Pending

\* loop head: the loop test, then the backoff sleep of a retry
ReqBackoff ==
    /\ rPc = "loop"
    /\ LoopContinues(attempt)
    /\ clock' = clock + BackoffDelay(attempt)
    /\ rPc' = "fetch"
    /\ UNCHANGED <<attempt, lastError, fetchLog, pendingRA, rRes, rResult>>
    /\ UNCHANGED notReq

\* the loop test fails: throw lastError ?? new Error(...)
ReqExhausted ==
    /\ rPc = "loop"
    /\ ~LoopContinues(attempt)
    /\ rResult' = Thrown(IF lastError /= NoError THEN lastError ELSE ExhaustedError)
    /\ rPc' = "done"
    /\ UNCHANGED <<attempt, lastError, clock, fetchLog, pendingRA, rRes>>
    /\ UNCHANGED notReq

\* res = await fetch(url, init) and the synchronous code up to the next
\* await: the catch, the 429 test, the Retry-After sleep, the read of the
\* body, or return undefined for a 204
ReqFetch(o) ==
    /\ rPc = "fetch"
    /\ fetchLog' = Append(fetchLog, [outcome |-> o, at |-> clock])
    /\ IF o.kind = "reject"
       THEN \* catch (err) { lastError = ...; continue; }
            /\ lastError' = TransportError(o.msg, attempt)
            /\ attempt' = attempt + 1
            /\ rPc' = "loop"
            /\ UNCHANGED <<pendingRA, rRes, rResult>>
       ELSE IF RetryStatus(o.status, attempt)
       THEN IF o.retryAfter /= NoRetryAfter
            THEN /\ pendingRA' = RetryAfterDelay(o.retryAfter)
                 /\ rPc' = "retryAfter"
                 /\ UNCHANGED <<attempt, lastError, rRes, rResult>>
            ELSE /\ attempt' = attempt + 1
                 /\ rPc' = "loop"
                 /\ UNCHANGED <<pendingRA, lastError, rRes, rResult>>
       ELSE IF ResOk(o.status) /\ o.status = 204
       THEN /\ rResult' = Returned(ResponseValue(o.status, "object"))
            /\ rPc' = "done"
            /\ UNCHANGED <<attempt, lastError, pendingRA, rRes>>
       ELSE \* await res.text() or await res.json()
            /\ rRes' = o.status
            /\ rPc' = "body"
            /\ UNCHANGED <<attempt, lastError, pendingRA, rResult>>
    /\ UNCHANGED clock
    /\ UNCHANGED notReq

\* await res.text() (then the throw of the PropstackError) or
\* await res.json() (then the return) is settled
ReqBody(b) ==
    /\ rPc = "body"
    /\ rResult' = BodyResult(rRes, b, attempt)
    /\ rPc' = "done"
    /\ UNCHANGED <<attempt, lastError, clock, fetchLog, pendingRA, rRes>>
    /\ UNCHANGED notReq

\* await sleep(Number(retryAfter) * 1000); continue;
ReqRetryAfter ==
    /\ rPc = "retryAfter"
    /\ clock' = clock + pendingRA
    /\ pendingRA' = 0
    /\ attempt' = attempt + 1
    /\ rPc' = "loop"
    /\ UNCHANGED <<lastError, fetchLog, rRes, rResult>>
    /\ UNCHANGED notReq

ReqNext ==
    \/ ReqBackoff
    \/ ReqExhausted
    \/ \E o \in FetchOutcomes : ReqFetch(o)
    \/ \E b \in BodyOutcomes : ReqBody(b)
    \/ ReqRetryAfter

(***************************************************************************)
(* errorResult (tool-layer conversion of a thrown error into a result)     *)
(***************************************************************************)

\* the message errorResult / formatError pick for an error
ErrorText(err) ==
    IF err.type = "PropstackError"
    THEN CASE err.status = 401 -> "Invalid API key"
           [] err.status = 403 -> "Insufficient permissions"
           [] err.status = 404 -> "not found"
           [] err.status = 422 -> "Validation error"
           [] err.status = 429 -> "Rate limited by Propstack API"
           [] OTHER -> "Propstack API error"
    ELSE IF err.type = "TypeError" /\ err.msg \in {"fetch failed", "ECONNREFUSED", "ENOTFOUND"}
    THEN "Error: Network error"
    ELSE "Error: message"

\* errorResult(entity, err): a PropstackError becomes a plain textResult, any
\* other error a result flagged isError
errorResult(entity, err) ==
    [kind |-> "error", entity |-> entity, text |-> ErrorText(err),
     isError |-> err.type /= "PropstackError", err |-> err,
     shownTotal |-> -1, outOf |-> -1, warnings |-> <<>>]

\* the TypeError thrown by reading a property of undefined or null:
\* "Cannot read properties of undefined (reading 'data')" and its like
NoValueTypeError ==
    [type |-> "TypeError", status |-> 0, msg |-> "Cannot read properties", at |-> -1]

(***************************************************************************)
(* The upstream of the paginated endpoints                                 *)
(***************************************************************************)

\* res.meta?.total_count === undefined
NoTotal == -1

\* args.max_profiles === undefined
NoArg == -1

\* number of empty pages the unconstrained upstream answers one walk with:
\* the page counter of the walks is unbounded as in the code, and the walk
\* whose upstream serves empty pages without end is followed this far
MaxEmptyPages == 22

\* upstream collection sizes tried for the offset-paged upstream
UpstreamCounts == {0, 120, 250, 1050, 2050}

\* total_count values the unconstrained upstream may report
AnyTotals == {NoTotal, 120, 2050}

\* values of args.max_profiles tried
MaxProfilesArgs == {NoArg, 150, 250}

\* errors a client.get() of the walk can throw (results of request())
WalkErrors == {PropstackError(404, 0), TransportError("fetch failed", MAX_RETRIES)}

\* n consecutive item ids starting after offset `off`
Slice(off, n) == IF n <= 0 THEN <<>> ELSE [i \in 1..n |-> off + i]

\* an upstream holding items 1..count that serves page p of size s as the
\* items at offsets (p-1)*s .. p*s-1 and reports total_count = count
OffsetPage(count, p, s) ==
    LET off == (p - 1) * s
        n == IF off >= count THEN 0 ELSE Min(s, count - off)
    IN  [data |-> Slice(off, n), total |-> count]

\* page sizes the unconstrained upstream answers a request for s items with
AnyCounts(name, s) ==
    IF name = "pipeline_summary" THEN {0, s} ELSE {0, s \div 2, s}

\* every answer the unconstrained upstream may give to a request for s items
\* after `empties` empty answers: any n <= s items (taken to be the n items
\* after the `served` ones it has handed out before) together with any
\* total_count, an empty page only while it has given fewer than
\* MaxEmptyPages of them
AnyPages(name, served, s, empties) ==
    {[data |-> Slice(served, n), total |-> t] :
        n \in {k \in AnyCounts(name, s) : k = 0 => empties < MaxEmptyPages},
        t \in AnyTotals}

(***************************************************************************)
(* The paginated accumulations                                             *)
(***************************************************************************)

\* per_page: 100 (dealParams) and Math.min(100, ...) (saved_queries)
PAGE_SIZE == 100

\* const maxDeals = 2000;
maxDeals == 2000

\* args.max_profiles ?? 1000
DEFAULT_MAX_PROFILES == 1000


NoResult ==
    [kind |-> "pending", entity |-> "", text |-> "", isError |-> FALSE, err |-> NoError,
     shownTotal |-> -1, outOf |-> -1, warnings |-> <<>>]

\* const maxProfiles = args.max_profiles ?? 1000;
maxProfiles(arg) == IF arg = NoArg THEN DEFAULT_MAX_PROFILES ELSE arg

\* the cap of the running walk
Cap == IF op = "pipeline_summary" THEN maxDeals ELSE maxProfiles(maxArg)

\* page++
NextPage(p) == p + 1

\* the answers the upstream may give to a request for page p with per_page s
UpstreamPages(p, s) ==
    IF upMode = "offset" THEN {OffsetPage(upCount, p, s)}
    ELSE AnyPages(op, Len(items), s, upEmpties)

\* while (allDeals.length < (totalCount ?? 0) && allDeals.length < maxDeals)
DealsContinue(n, total) ==
    n < (IF total = NoTotal THEN 0 ELSE total) /\ n < maxDeals

\* if (totalCount !== undefined && allDeals.length >= maxDeals && totalCount > maxDeals)
\*   warnings.push(`Summary capped at ...`)
DealWarnings_None(n, total) == <<>>
DealWarnings(n, total) ==
    IF total /= NoTotal /\ n >= maxDeals /\ total > maxDeals
    THEN <<"Summary capped">> ELSE <<>>

\* the summary text: `Total deals: ${deals.meta?.total_count ?? totalDeals}` and the note
DealSummary(all, total) ==
    [kind |-> "summary", entity |-> "Pipeline summary", text |-> "# Pipeline Summary",
     isError |-> FALSE, err |-> NoError,
     shownTotal |-> IF total /= NoTotal THEN total ELSE Len(all),
     outOf |-> Len(all), warnings |-> DealWarnings(Len(all), total)]

\* per_page: Math.min(100, maxProfiles - allProfiles.length)
ProfilePerPage(n, mx) == Min(PAGE_SIZE, mx - n)

\* hasMore = allProfiles.length < total && allProfiles.length < maxProfiles
ProfileHasMore(n, total, mx) ==
    n < (IF total = NoTotal THEN 0 ELSE total) /\ n < mx

\* while (hasMore && allProfiles.length < maxProfiles)
ProfilesContinue(more, n, mx) == more /\ n < mx

\* what match_contacts_to_property returns after the walk: the "No search
\* profiles found" text; "No matching search profiles found ... Checked N
\* search profiles" when no profile was pushed on results (top.length === 0);
\* or the report whose header names allProfiles.length
MatchReport(all, scoring) ==
    IF Len(all) = 0
    THEN [kind |-> "noProfiles", entity |-> "Property matching",
          text |-> "No search profiles found", isError |-> FALSE, err |-> NoError,
          shownTotal |-> -1, outOf |-> 0, warnings |-> <<>>]
    ELSE IF ~scoring
    THEN [kind |-> "noMatch", entity |-> "Property matching",
          text |-> "No matching search profiles found", isError |-> FALSE,
          err |-> NoError, shownTotal |-> -1, outOf |-> Len(all), warnings |-> <<>>]
    ELSE [kind |-> "report", entity |-> "Property matching",
          text |-> "Matching Contacts", isError |-> FALSE, err |-> NoError,
          shownTotal |-> -1, outOf |-> Len(all), warnings |-> <<>>]

\* catch (err) { return errorResult(entity, err); } around the whole handler
WalkCatch_KeepPartial(entity, err, all, total) ==
    IF entity = "Pipeline summary" THEN DealSummary(all, total) ELSE MatchReport(all, upScoring)
WalkCatch(entity, err, all, total) == errorResult(entity, err)

WalkInit ==
    /\ op \in {"pipeline_summary", "match_contacts_to_property"}
    /\ maxArg \in IF op = "pipeline_summary" THEN {NoArg} ELSE MaxProfilesArgs
    /\ upMode \in {"offset", "any"}
    /\ upCount \in IF upMode = "offset" THEN UpstreamCounts ELSE {0}
    /\ upScoring \in IF op = "pipeline_summary" THEN {FALSE} ELSE BOOLEAN
    /\ upEmpties = 0
    /\ wPc = "first"
    /\ items = <<>>
    /\ page = 1
    /\ totalCount = NoTotal
    /\ hasMore = TRUE
    /\ lastPer = 0
    /\ lastN = 0
    /\ lastTotal = NoTotal
    /\ failedPage = 0
    /\ failedErr = NoError
    /\ wResult = NoResult

\* pipeline_summary: client.get("/deal_pipelines") fulfilled; the do-while starts
DealsGetPipelines ==
    /\ op = "pipeline_summary" /\ wPc = "first"
    /\ wPc' = "walk"
    /\ UNCHANGED <<op, maxArg, upMode, upCount, upScoring, upEmpties, items, page, totalCount, hasMore,
                   lastPer, lastN, lastTotal, failedPage, failedErr, wResult>>
    /\ UNCHANGED notWalk

\* pipeline_summary: client.get("/deal_pipelines") rejected
DealsPipelinesFail(e) ==
    /\ op = "pipeline_summary" /\ wPc = "first"
    /\ wResult' = errorResult("Pipeline summary", e)
    /\ wPc' = "done"
    /\ UNCHANGED <<op, maxArg, upMode, upCount, upScoring, upEmpties, items, page, totalCount, hasMore,
                   lastPer, lastN, lastTotal, failedPage, failedErr>>
    /\ UNCHANGED notWalk

\* pipeline_summary: one iteration of the do-while; when the loop ends the
\* summary is built from allDeals
DealsPage(res) ==
    /\ op = "pipeline_summary" /\ wPc = "walk"
    /\ LET all == IF Len(res.data) > 0 THEN items \o res.data ELSE items
       IN  /\ items' = all
           /\ totalCount' = res.total
           /\ page' = NextPage(page)
           /\ lastPer' = PAGE_SIZE
           /\ lastN' = Len(res.data)
           /\ lastTotal' = res.total
           /\ IF DealsContinue(Len(all), res.total)
              THEN wPc' = "walk" /\ UNCHANGED wResult
              ELSE wPc' = "done" /\ wResult' = DealSummary(all, res.total)
    /\ upEmpties' = IF Len(res.data) = 0 THEN upEmpties + 1 ELSE upEmpties
    /\ UNCHANGED <<op, maxArg, upMode, upCount, upScoring, hasMore, failedPage, failedErr>>
    /\ UNCHANGED notWalk

\* pipeline_summary: the page request throws
DealsPageFail(e) ==
    /\ op = "pipeline_summary" /\ wPc = "walk"
    /\ failedPage' = page
    /\ failedErr' = e
    /\ wResult' = WalkCatch("Pipeline summary", e, items, totalCount)
    /\ wPc' = "done"
    /\ UNCHANGED <<op, maxArg, upMode, upCount, upScoring, upEmpties, items, page, totalCount, hasMore,
                   lastPer, lastN, lastTotal>>
    /\ UNCHANGED notWalk

\* match_contacts_to_property: client.get(`/units/${id}`) fulfilled; the
\* while loop is entered, or skipped when its test fails at once
MatchGetProperty ==
    /\ op = "match_contacts_to_property" /\ wPc = "first"
    /\ IF ProfilesContinue(hasMore, Len(items), maxProfiles(maxArg))
       THEN wPc' = "walk" /\ UNCHANGED wResult
       ELSE wPc' = "done" /\ wResult' = MatchReport(items, upScoring)
    /\ UNCHANGED <<op, maxArg, upMode, upCount, upScoring, upEmpties, items, page, totalCount, hasMore,
                   lastPer, lastN, lastTotal, failedPage, failedErr>>
    /\ UNCHANGED notWalk

\* match_contacts_to_property: client.get(`/units/${id}`) throws
MatchPropertyFail(e) ==
    /\ op = "match_contacts_to_property" /\ wPc = "first"
    /\ wResult' = errorResult("Property matching", e)
    /\ wPc' = "done"
    /\ UNCHANGED <<op, maxArg, upMode, upCount, upScoring, upEmpties, items, page, totalCount, hasMore,
                   lastPer, lastN, lastTotal, failedPage, failedErr>>
    /\ UNCHANGED notWalk

\* match_contacts_to_property: one iteration of the while loop
ProfilesPage(res) ==
    /\ op = "match_contacts_to_property" /\ wPc = "walk"
    /\ LET mx == maxProfiles(maxArg)
           got == Len(res.data) > 0
           all == IF got THEN items \o res.data ELSE items
           more == IF got THEN ProfileHasMore(Len(all), res.total, mx) ELSE FALSE
       IN  /\ items' = all
           /\ hasMore' = more
           /\ page' = IF got THEN NextPage(page) ELSE page
           /\ lastPer' = ProfilePerPage(Len(items), mx)
           /\ lastN' = Len(res.data)
           /\ lastTotal' = res.total
           /\ IF ProfilesContinue(more, Len(all), mx)
              THEN wPc' = "walk" /\ UNCHANGED wResult
              ELSE wPc' = "done" /\ wResult' = MatchReport(all, upScoring)
    /\ upEmpties' = IF Len(res.data) = 0 THEN upEmpties + 1 ELSE upEmpties
    /\ UNCHANGED <<op, maxArg, upMode, upCount, upScoring, totalCount, failedPage, failedErr>>
    /\ UNCHANGED notWalk

\* match_contacts_to_property: the page request throws
ProfilesPageFail(e) ==
    /\ op = "match_contacts_to_property" /\ wPc = "walk"
    /\ failedPage' = page
    /\ failedErr' = e
    /\ wResult' = WalkCatch("Property matching", e, items, totalCount)
    /\ wPc' = "done"
    /\ UNCHANGED <<op, maxArg, upMode, upCount, upScoring, upEmpties, items, page, totalCount, hasMore,
                   lastPer, lastN, lastTotal>>
    /\ UNCHANGED notWalk

WalkNext ==
    \/ DealsGetPipelines
    \/ \E e \in WalkErrors : DealsPipelinesFail(e)
    \/ \E res \in UpstreamPages(page, PAGE_SIZE) : DealsPage(res)
    \/ \E e \in WalkErrors : DealsPageFail(e)
    \/ MatchGetProperty
    \/ \E e \in WalkErrors : MatchPropertyFail(e)
    \/ \E res \in UpstreamPages(page, ProfilePerPage(Len(items), maxProfiles(maxArg))) :
          ProfilesPage(res)
    \/ \E e \in WalkErrors : ProfilesPageFail(e)

(***************************************************************************)
(* Fan-out tools: full_contact_360 and property_performance_report         *)
(***************************************************************************)

FanOps == {"full_contact_360", "property_performance_report"}

\* the calls of the array literal handed to Promise.allSettled, in order;
\* the first one fetches the entity the report is about
FanCalls(o) ==
    IF o = "full_contact_360"
    THEN <<"contact", "searchProfiles", "deals", "activities">>
    ELSE <<"property", "deals", "activities">>

\* the entity name handed to errorResult
FanEntity(o) == IF o = "full_contact_360" THEN "Contact 360" ELSE "Property report"

\* the name pushed on warnings for a rejected call
WarningName(call) ==
    CASE call = "searchProfiles" -> "Search profiles"
      [] call = "deals" -> "Deals"
      [] call = "activities" -> "Activities"
      [] OTHER -> call

\* a call and what it settled with; v tells the value of a fulfilled call:
\* an object, or undefined (a 204 answer) or null (the body `null`)
NotIssued == [st |-> "idle", v |-> "none", n |-> 0, total |-> NoTotal, err |-> NoError]
PendingCall == [st |-> "pending", v |-> "none", n |-> 0, total |-> NoTotal, err |-> NoError]
\* fulfilled with n rows and no meta
Fulfilled(n) ==
    [st |-> "fulfilled", v |-> "object", n |-> n, total |-> NoTotal, err |-> NoError]
\* fulfilled with n rows and meta.total_count
FulfilledOf(n, total) ==
    [st |-> "fulfilled", v |-> "object", n |-> n, total |-> total, err |-> NoError]
\* fulfilled with undefined or null: request() returns undefined for a 204
\* answer and null for the body `null`
FulfilledWithout(v) ==
    [st |-> "fulfilled", v |-> v, n |-> 0, total |-> NoTotal, err |-> NoError]
Rejected(e) == [st |-> "rejected", v |-> "none", n |-> 0, total |-> NoTotal, err |-> e]

\* rows a fulfilled list call can carry (value.data ?? []).length
FanRowCounts == {0, 2}

\* meta.total_count of a page of 2 rows: all of them, or more than fetched
FanTotals == {2, 5}

\* what call i can settle with: the entity, or a list, or no value at all
\* (undefined or null), or a rejection
SettleOutcomes(i) ==
    (IF i = 1 THEN {Fulfilled(1)}
     ELSE {Fulfilled(n) : n \in FanRowCounts} \cup {FulfilledOf(2, t) : t \in FanTotals})
        \cup {FulfilledWithout(v) : v \in {"undefined", "null"}}
        \cup {Rejected(e) : e \in WalkErrors}

IsSettled(c) == c.st = "fulfilled" \/ c.st = "rejected"

\* a Promise.all would resume at the first rejection
AwaitReady_All(calls) ==
    \/ \A i \in 1..Len(calls) : calls[i].st = "fulfilled"
    \/ \E i \in 1..Len(calls) : calls[i].st = "rejected"

\* Promise.allSettled resumes when every promise has settled
AwaitReady(calls) == \A i \in 1..Len(calls) : IsSettled(calls[i])

\* if (contactRes.status === "rejected") / if (propertyRes.status === "rejected")
EssentialFailed(settled) == settled[1].st = "rejected"

\* a number the section does not print
NotPrinted == -1

\* the total a section of property_performance_report prints:
\* value.meta?.total_count ?? list.length
PrintedTotal(o, call, c) ==
    IF o = "property_performance_report"
    THEN IF c.total /= NoTotal THEN c.total ELSE c.n
    ELSE NotPrinted

\* the number of fetched rows a section prints: `(${list.length})` in the
\* headings of full_contact_360, `(showing last ${activityList.length})` in
\* the activity summary; the pipeline analysis prints none
PrintedCount(o, call, c) ==
    IF o = "full_contact_360" THEN IF c.n > 0 THEN c.n ELSE NotPrinted
    ELSE IF call = "activities" THEN c.n
    ELSE NotPrinted

\* the section built for one non-essential call: its rows, the "None" text,
\* or "Failed to load: ..." with the formatted reason
Section(o, call, c) ==
    IF c.st = "fulfilled"
    THEN [name |-> call, state |-> IF c.n > 0 THEN "data" ELSE "empty",
          total |-> PrintedTotal(o, call, c), count |-> PrintedCount(o, call, c),
          err |-> NoError]
    ELSE [name |-> call, state |-> "failed", total |-> NotPrinted, count |-> NotPrinted,
          err |-> c.err]

\* warnings: the names of the rejected non-essential calls, in section order
RECURSIVE Warnings(_, _, _)
Warnings(calls, settled, i) ==
    IF i > Len(settled) THEN <<>>
    ELSE (IF settled[i].st = "rejected" THEN <<WarningName(calls[i])>> ELSE <<>>)
             \o Warnings(calls, settled, i + 1)

\* the text result assembled after the essential check
FanReport(o, settled) ==
    LET calls == FanCalls(o)
        w == Warnings(calls, settled, 2)
    IN  [kind |-> "report",
         sections |-> [i \in 1..Len(calls) |->
                          IF i = 1
                          THEN [name |-> calls[1], state |-> "data", total |-> NotPrinted,
                                count |-> NotPrinted, err |-> NoError]
                          ELSE Section(o, calls[i], settled[i])],
         warnings |-> w,
         note |-> Len(w) > 0,
         \* neither tool has a statement that warns of a total above the rows fetched
         sampleWarnings |-> <<>>,
         isError |-> FALSE]

FanInit ==
    /\ fOp \in FanOps
    /\ fPc = "start"
    /\ fCalls = [i \in 1..Len(FanCalls(fOp)) |-> NotIssued]
    /\ fOrder = <<>>
    /\ fSettled = <<>>
    /\ fResult = NoResult

\* the array literal: every client.get(...) is called, and so every request
\* started, before Promise.allSettled is called and awaited
FanIssue ==
    /\ fPc = "start"
    /\ fCalls' = [i \in 1..Len(fCalls) |-> PendingCall]
    /\ fPc' = "await"
    /\ UNCHANGED <<fOp, fOrder, fSettled, fResult>>
    /\ UNCHANGED notFan

\* one of the requests in flight settles
FanSettle(i, o) ==
    /\ fPc = "await"
    /\ fCalls[i].st = "pending"
    /\ fCalls' = [fCalls EXCEPT ![i] = o]
    /\ fOrder' = Append(fOrder, i)
    /\ UNCHANGED <<fOp, fPc, fSettled, fResult>>
    /\ UNCHANGED notFan

\* the await resumes; the essential check, the sections, the return. The
\* value of every fulfilled call is read (contactName(contact) and
\* property.title for the entity, value.data for a list): for a value of
\* undefined or null the read throws, and the handler's catch returns
\* errorResult of that TypeError
FanReturn ==
    /\ fPc = "await"
    /\ AwaitReady(fCalls)
    /\ fSettled' = fCalls
    /\ fResult' = IF EssentialFailed(fCalls)
                  THEN errorResult(FanEntity(fOp), fCalls[1].err)
                  ELSE IF \E i \in 1..Len(fCalls) :
                             fCalls[i].st = "fulfilled" /\ fCalls[i].v /= "object"
                  THEN errorResult(FanEntity(fOp), NoValueTypeError)
                  ELSE FanReport(fOp, fCalls)
    /\ fPc' = "done"
    /\ UNCHANGED <<fOp, fCalls, fOrder>>
    /\ UNCHANGED notFan

FanNext ==
    \/ FanIssue
    \/ \E i \in 1..Len(fCalls) : \E o \in SettleOutcomes(i) : FanSettle(i, o)
    \/ FanReturn

(***************************************************************************)
(* match_contacts_to_property: scoring, ranking and the top list           *)
(***************************************************************************)

\* JSON values as the handler sees them: a field holds a value, null, or is
\* absent (undefined)
Num(n) == [t |-> "num", n |-> n]
NullNum == [t |-> "null", n |-> 0]
UndefNum == [t |-> "undefined", n |-> 0]
Str(s) == [t |-> "str", s |-> s]
NullStr == [t |-> "null", s |-> ""]
UndefStr == [t |-> "undefined", s |-> ""]
\* a string whose characters matter (the city names): the sequence of its
\* UTF-16 code units
Text(cs) == [t |-> "str", s |-> cs]
NullText == [t |-> "null", s |-> <<>>]
UndefText == [t |-> "undefined", s |-> <<>>]
List(l) == [t |-> "list", l |-> l]
NullList == [t |-> "null", l |-> <<>>]
UndefList == [t |-> "undefined", l |-> <<>>]

\* x !== null
NotNull(x) == x.t /= "null"

\* x === null || x === undefined
Missing(x) == x.t = "null" \/ x.t = "undefined"

\* a string in a condition: null, undefined and "" are falsy
TruthyStr(x) == x.t = "str" /\ x.s /= ""

\* list?.length in a condition
HasElements(x) == x.t = "list" /\ Len(x.l) > 0

\* a string is the sequence of its UTF-16 code units, as the runtime holds it

\* the code points of a string: a high surrogate followed by a low one is
\* one code point, any other code unit (a lone surrogate too) is its own
RECURSIVE CodePoints(_)
CodePoints(us) ==
    IF us = <<>> THEN <<>>
    ELSE IF /\ Len(us) >= 2
            /\ us[1] \in 55296..56319
            /\ us[2] \in 56320..57343
    THEN <<65536 + (us[1] - 55296) * 1024 + (us[2] - 56320)>>
         \o CodePoints(SubSeq(us, 3, Len(us)))
    ELSE <<us[1]>> \o CodePoints(Tail(us))

\* the code units of a sequence of code points
RECURSIVE CodeUnits(_)
CodeUnits(cps) ==
    IF cps = <<>> THEN <<>>
    ELSE (IF cps[1] >= 65536
          THEN <<55296 + ((cps[1] - 65536) \div 1024),
                 56320 + ((cps[1] - 65536) % 1024)>>
          ELSE <<cps[1]>>) \o CodeUnits(Tail(cps))

\* String.prototype.toLowerCase follows the Unicode Character Database the
\* runtime is built with, and the repository names no runtime: the tables
\* are those of Unicode 15.1 (Node 18) with the changes of Unicode 17.0
\* (Node 20.20, 22.22) where the runtime carries that version
UnicodeVersions == {"15.1", "17.0"}

\* the simple lower-case mappings: <<first, last, step, d>> maps every
\* step-th code point c of first..last to c + d; under 17.0 also U+1C89,
\* U+A7CB, U+A7CC, U+A7CE, U+A7D2, U+A7D4, U+A7DA, U+A7DC, U+10D50..10D65
\* and U+16EA0..16EB8
LowerRanges == {
    <<65, 90, 1, 32>>, <<192, 214, 1, 32>>, <<216, 222, 1, 32>>,
    <<256, 302, 2, 1>>, <<306, 310, 2, 1>>, <<313, 327, 2, 1>>,
    <<330, 374, 2, 1>>, <<376, 376, 1, -121>>, <<377, 381, 2, 1>>,
    <<385, 385, 1, 210>>, <<386, 388, 2, 1>>, <<390, 390, 1, 206>>,
    <<391, 391, 1, 1>>, <<393, 394, 1, 205>>, <<395, 395, 1, 1>>,
    <<398, 398, 1, 79>>, <<399, 399, 1, 202>>, <<400, 400, 1, 203>>,
    <<401, 401, 1, 1>>, <<403, 403, 1, 205>>, <<404, 404, 1, 207>>,
    <<406, 406, 1, 211>>, <<407, 407, 1, 209>>, <<408, 408, 1, 1>>,
    <<412, 412, 1, 211>>, <<413, 413, 1, 213>>, <<415, 415, 1, 214>>,
    <<416, 420, 2, 1>>, <<422, 422, 1, 218>>, <<423, 423, 1, 1>>,
    <<425, 425, 1, 218>>, <<428, 428, 1, 1>>, <<430, 430, 1, 218>>,
    <<431, 431, 1, 1>>, <<433, 434, 1, 217>>, <<435, 437, 2, 1>>,
    <<439, 439, 1, 219>>, <<440, 440, 1, 1>>, <<444, 444, 1, 1>>,
    <<452, 452, 1, 2>>, <<453, 453, 1, 1>>, <<455, 455, 1, 2>>,
    <<456, 456, 1, 1>>, <<458, 458, 1, 2>>, <<459, 475, 2, 1>>,
    <<478, 494, 2, 1>>, <<497, 497, 1, 2>>, <<498, 500, 2, 1>>,
    <<502, 502, 1, -97>>, <<503, 503, 1, -56>>, <<504, 542, 2, 1>>,
    <<544, 544, 1, -130>>, <<546, 562, 2, 1>>, <<570, 570, 1, 10795>>,
    <<571, 571, 1, 1>>, <<573, 573, 1, -163>>, <<574, 574, 1, 10792>>,
    <<577, 577, 1, 1>>, <<579, 579, 1, -195>>, <<580, 580, 1, 69>>,
    <<581, 581, 1, 71>>, <<582, 590, 2, 1>>, <<880, 882, 2, 1>>,
    <<886, 886, 1, 1>>, <<895, 895, 1, 116>>, <<902, 902, 1, 38>>,
    <<904, 906, 1, 37>>, <<908, 908, 1, 64>>, <<910, 911, 1, 63>>,
    <<913, 929, 1, 32>>, <<931, 939, 1, 32>>, <<975, 975, 1, 8>>,
    <<984, 1006, 2, 1>>, <<1012, 1012, 1, -60>>, <<1015, 1015, 1, 1>>,
    <<1017, 1017, 1, -7>>, <<1018, 1018, 1, 1>>, <<1021, 1023, 1, -130>>,
    <<1024, 1039, 1, 80>>, <<1040, 1071, 1, 32>>, <<1120, 1152, 2, 1>>,
    <<1162, 1214, 2, 1>>, <<1216, 1216, 1, 15>>, <<1217, 1229, 2, 1>>,
    <<1232, 1326, 2, 1>>, <<1329, 1366, 1, 48>>, <<4256, 4293, 1, 7264>>,
    <<4295, 4295, 1, 7264>>, <<4301, 4301, 1, 7264>>,
    <<5024, 5103, 1, 38864>>, <<5104, 5109, 1, 8>>,
    <<7312, 7354, 1, -3008>>, <<7357, 7359, 1, -3008>>,
    <<7680, 7828, 2, 1>>, <<7838, 7838, 1, -7615>>, <<7840, 7934, 2, 1>>,
    <<7944, 7951, 1, -8>>, <<7960, 7965, 1, -8>>, <<7976, 7983, 1, -8>>,
    <<7992, 7999, 1, -8>>, <<8008, 8013, 1, -8>>, <<8025, 8031, 2, -8>>,
    <<8040, 8047, 1, -8>>, <<8072, 8079, 1, -8>>, <<8088, 8095, 1, -8>>,
    <<8104, 8111, 1, -8>>, <<8120, 8121, 1, -8>>, <<8122, 8123, 1, -74>>,
    <<8124, 8124, 1, -9>>, <<8136, 8139, 1, -86>>, <<8140, 8140, 1, -9>>,
    <<8152, 8153, 1, -8>>, <<8154, 8155, 1, -100>>, <<8168, 8169, 1, -8>>,
    <<8170, 8171, 1, -112>>, <<8172, 8172, 1, -7>>,
    <<8184, 8185, 1, -128>>, <<8186, 8187, 1, -126>>,
    <<8188, 8188, 1, -9>>, <<8486, 8486, 1, -7517>>,
    <<8490, 8490, 1, -8383>>, <<8491, 8491, 1, -8262>>,
    <<8498, 8498, 1, 28>>, <<8544, 8559, 1, 16>>, <<8579, 8579, 1, 1>>,
    <<9398, 9423, 1, 26>>, <<11264, 11311, 1, 48>>,
    <<11360, 11360, 1, 1>>, <<11362, 11362, 1, -10743>>,
    <<11363, 11363, 1, -3814>>, <<11364, 11364, 1, -10727>>,
    <<11367, 11371, 2, 1>>, <<11373, 11373, 1, -10780>>,
    <<11374, 11374, 1, -10749>>, <<11375, 11375, 1, -10783>>,
    <<11376, 11376, 1, -10782>>, <<11378, 11378, 1, 1>>,
    <<11381, 11381, 1, 1>>, <<11390, 11391, 1, -10815>>,
    <<11392, 11490, 2, 1>>, <<11499, 11501, 2, 1>>,
    <<11506, 11506, 1, 1>>, <<42560, 42604, 2, 1>>,
    <<42624, 42650, 2, 1>>, <<42786, 42798, 2, 1>>,
    <<42802, 42862, 2, 1>>, <<42873, 42875, 2, 1>>,
    <<42877, 42877, 1, -35332>>, <<42878, 42886, 2, 1>>,
    <<42891, 42891, 1, 1>>, <<42893, 42893, 1, -42280>>,
    <<42896, 42898, 2, 1>>, <<42902, 42920, 2, 1>>,
    <<42922, 42922, 1, -42308>>, <<42923, 42923, 1, -42319>>,
    <<42924, 42924, 1, -42315>>, <<42925, 42925, 1, -42305>>,
    <<42926, 42926, 1, -42308>>, <<42928, 42928, 1, -42258>>,
    <<42929, 42929, 1, -42282>>, <<42930, 42930, 1, -42261>>,
    <<42931, 42931, 1, 928>>, <<42932, 42946, 2, 1>>,
    <<42948, 42948, 1, -48>>, <<42949, 42949, 1, -42307>>,
    <<42950, 42950, 1, -35384>>, <<42951, 42953, 2, 1>>,
    <<42960, 42960, 1, 1>>, <<42966, 42968, 2, 1>>,
    <<42997, 42997, 1, 1>>, <<65313, 65338, 1, 32>>,
    <<66560, 66599, 1, 40>>, <<66736, 66771, 1, 40>>,
    <<66928, 66938, 1, 39>>, <<66940, 66954, 1, 39>>,
    <<66956, 66962, 1, 39>>, <<66964, 66965, 1, 39>>,
    <<68736, 68786, 1, 64>>, <<71840, 71871, 1, 32>>,
    <<93760, 93791, 1, 32>>, <<125184, 125217, 1, 34>>}
    \cup (IF sUnicode = "17.0"
          THEN {<<7305, 7305, 1, 1>>, <<42955, 42955, 1, -42343>>,
                <<42956, 42958, 2, 1>>, <<42962, 42964, 2, 1>>,
                <<42970, 42970, 1, 1>>, <<42972, 42972, 1, -42561>>,
                <<68944, 68965, 1, 32>>, <<93856, 93880, 1, 27>>}
          ELSE {})

\* the code points that are Cased and not Case_Ignorable, as <<first, last>>;
\* U+0295 is one of them up to 15.1 and none under 17.0, which adds
\* U+1C89..1C8A, U+A7CB..A7CF, U+A7D2, U+A7D4, U+A7DA..A7DC, U+10D50..10D65,
\* U+10D70..10D85, U+16EA0..16EB8 and U+16EBB..16ED3
CasedRanges == {
    <<65, 90>>, <<97, 122>>, <<170, 170>>, <<181, 181>>, <<186, 186>>,
    <<192, 214>>, <<216, 246>>, <<248, 442>>, <<444, 447>>, <<452, 659>>,
    <<662, 687>>, <<880, 883>>, <<886, 887>>, <<891, 893>>, <<895, 895>>,
    <<902, 902>>, <<904, 906>>, <<908, 908>>, <<910, 929>>, <<931, 1013>>,
    <<1015, 1153>>, <<1162, 1327>>, <<1329, 1366>>, <<1376, 1416>>,
    <<4256, 4293>>, <<4295, 4295>>, <<4301, 4301>>, <<4304, 4346>>,
    <<4349, 4351>>, <<5024, 5109>>, <<5112, 5117>>, <<7296, 7304>>,
    <<7312, 7354>>, <<7357, 7359>>, <<7424, 7467>>, <<7531, 7543>>,
    <<7545, 7578>>, <<7680, 7957>>, <<7960, 7965>>, <<7968, 8005>>,
    <<8008, 8013>>, <<8016, 8023>>, <<8025, 8025>>, <<8027, 8027>>,
    <<8029, 8029>>, <<8031, 8061>>, <<8064, 8116>>, <<8118, 8124>>,
    <<8126, 8126>>, <<8130, 8132>>, <<8134, 8140>>, <<8144, 8147>>,
    <<8150, 8155>>, <<8160, 8172>>, <<8178, 8180>>, <<8182, 8188>>,
    <<8450, 8450>>, <<8455, 8455>>, <<8458, 8467>>, <<8469, 8469>>,
    <<8473, 8477>>, <<8484, 8484>>, <<8486, 8486>>, <<8488, 8488>>,
    <<8490, 8493>>, <<8495, 8500>>, <<8505, 8505>>, <<8508, 8511>>,
    <<8517, 8521>>, <<8526, 8526>>, <<8544, 8575>>, <<8579, 8580>>,
    <<9398, 9449>>, <<11264, 11387>>, <<11390, 11492>>, <<11499, 11502>>,
    <<11506, 11507>>, <<11520, 11557>>, <<11559, 11559>>,
    <<11565, 11565>>, <<42560, 42605>>, <<42624, 42651>>,
    <<42786, 42863>>, <<42865, 42887>>, <<42891, 42894>>,
    <<42896, 42954>>, <<42960, 42961>>, <<42963, 42963>>,
    <<42965, 42969>>, <<42997, 42998>>, <<43002, 43002>>,
    <<43824, 43866>>, <<43872, 43880>>, <<43888, 43967>>,
    <<64256, 64262>>, <<64275, 64279>>, <<65313, 65338>>,
    <<65345, 65370>>, <<66560, 66639>>, <<66736, 66771>>,
    <<66776, 66811>>, <<66928, 66938>>, <<66940, 66954>>,
    <<66956, 66962>>, <<66964, 66965>>, <<66967, 66977>>,
    <<66979, 66993>>, <<66995, 67001>>, <<67003, 67004>>,
    <<68736, 68786>>, <<68800, 68850>>, <<71840, 71903>>,
    <<93760, 93823>>, <<119808, 119892>>, <<119894, 119964>>,
    <<119966, 119967>>, <<119970, 119970>>, <<119973, 119974>>,
    <<119977, 119980>>, <<119982, 119993>>, <<119995, 119995>>,
    <<119997, 120003>>, <<120005, 120069>>, <<120071, 120074>>,
    <<120077, 120084>>, <<120086, 120092>>, <<120094, 120121>>,
    <<120123, 120126>>, <<120128, 120132>>, <<120134, 120134>>,
    <<120138, 120144>>, <<120146, 120485>>, <<120488, 120512>>,
    <<120514, 120538>>, <<120540, 120570>>, <<120572, 120596>>,
    <<120598, 120628>>, <<120630, 120654>>, <<120656, 120686>>,
    <<120688, 120712>>, <<120714, 120744>>, <<120746, 120770>>,
    <<120772, 120779>>, <<122624, 122633>>, <<122635, 122654>>,
    <<122661, 122666>>, <<125184, 125251>>, <<127280, 127305>>,
    <<127312, 127337>>, <<127344, 127369>>}
    \cup (IF sUnicode = "17.0"
          THEN {<<7305, 7306>>, <<42955, 42959>>, <<42962, 42962>>,
                <<42964, 42964>>, <<42970, 42972>>, <<68944, 68965>>,
                <<68976, 68997>>, <<93856, 93880>>, <<93883, 93907>>}
          ELSE {<<661, 661>>})

\* the Case_Ignorable code points, as <<first, last>>; U+1171E is one of
\* them up to 15.1 and none under 17.0, which adds 88 others
CaseIgnorableRanges == {
    <<39, 39>>, <<46, 46>>, <<58, 58>>, <<94, 94>>, <<96, 96>>,
    <<168, 168>>, <<173, 173>>, <<175, 175>>, <<180, 180>>, <<183, 184>>,
    <<688, 879>>, <<884, 885>>, <<890, 890>>, <<900, 901>>, <<903, 903>>,
    <<1155, 1161>>, <<1369, 1369>>, <<1375, 1375>>, <<1425, 1469>>,
    <<1471, 1471>>, <<1473, 1474>>, <<1476, 1477>>, <<1479, 1479>>,
    <<1524, 1524>>, <<1536, 1541>>, <<1552, 1562>>, <<1564, 1564>>,
    <<1600, 1600>>, <<1611, 1631>>, <<1648, 1648>>, <<1750, 1757>>,
    <<1759, 1768>>, <<1770, 1773>>, <<1807, 1807>>, <<1809, 1809>>,
    <<1840, 1866>>, <<1958, 1968>>, <<2027, 2037>>, <<2042, 2042>>,
    <<2045, 2045>>, <<2070, 2093>>, <<2137, 2139>>, <<2184, 2184>>,
    <<2192, 2193>>, <<2200, 2207>>, <<2249, 2306>>, <<2362, 2362>>,
    <<2364, 2364>>, <<2369, 2376>>, <<2381, 2381>>, <<2385, 2391>>,
    <<2402, 2403>>, <<2417, 2417>>, <<2433, 2433>>, <<2492, 2492>>,
    <<2497, 2500>>, <<2509, 2509>>, <<2530, 2531>>, <<2558, 2558>>,
    <<2561, 2562>>, <<2620, 2620>>, <<2625, 2626>>, <<2631, 2632>>,
    <<2635, 2637>>, <<2641, 2641>>, <<2672, 2673>>, <<2677, 2677>>,
    <<2689, 2690>>, <<2748, 2748>>, <<2753, 2757>>, <<2759, 2760>>,
    <<2765, 2765>>, <<2786, 2787>>, <<2810, 2815>>, <<2817, 2817>>,
    <<2876, 2876>>, <<2879, 2879>>, <<2881, 2884>>, <<2893, 2893>>,
    <<2901, 2902>>, <<2914, 2915>>, <<2946, 2946>>, <<3008, 3008>>,
    <<3021, 3021>>, <<3072, 3072>>, <<3076, 3076>>, <<3132, 3132>>,
    <<3134, 3136>>, <<3142, 3144>>, <<3146, 3149>>, <<3157, 3158>>,
    <<3170, 3171>>, <<3201, 3201>>, <<3260, 3260>>, <<3263, 3263>>,
    <<3270, 3270>>, <<3276, 3277>>, <<3298, 3299>>, <<3328, 3329>>,
    <<3387, 3388>>, <<3393, 3396>>, <<3405, 3405>>, <<3426, 3427>>,
    <<3457, 3457>>, <<3530, 3530>>, <<3538, 3540>>, <<3542, 3542>>,
    <<3633, 3633>>, <<3636, 3642>>, <<3654, 3662>>, <<3761, 3761>>,
    <<3764, 3772>>, <<3782, 3782>>, <<3784, 3790>>, <<3864, 3865>>,
    <<3893, 3893>>, <<3895, 3895>>, <<3897, 3897>>, <<3953, 3966>>,
    <<3968, 3972>>, <<3974, 3975>>, <<3981, 3991>>, <<3993, 4028>>,
    <<4038, 4038>>, <<4141, 4144>>, <<4146, 4151>>, <<4153, 4154>>,
    <<4157, 4158>>, <<4184, 4185>>, <<4190, 4192>>, <<4209, 4212>>,
    <<4226, 4226>>, <<4229, 4230>>, <<4237, 4237>>, <<4253, 4253>>,
    <<4348, 4348>>, <<4957, 4959>>, <<5906, 5908>>, <<5938, 5939>>,
    <<5970, 5971>>, <<6002, 6003>>, <<6068, 6069>>, <<6071, 6077>>,
    <<6086, 6086>>, <<6089, 6099>>, <<6103, 6103>>, <<6109, 6109>>,
    <<6155, 6159>>, <<6211, 6211>>, <<6277, 6278>>, <<6313, 6313>>,
    <<6432, 6434>>, <<6439, 6440>>, <<6450, 6450>>, <<6457, 6459>>,
    <<6679, 6680>>, <<6683, 6683>>, <<6742, 6742>>, <<6744, 6750>>,
    <<6752, 6752>>, <<6754, 6754>>, <<6757, 6764>>, <<6771, 6780>>,
    <<6783, 6783>>, <<6823, 6823>>, <<6832, 6862>>, <<6912, 6915>>,
    <<6964, 6964>>, <<6966, 6970>>, <<6972, 6972>>, <<6978, 6978>>,
    <<7019, 7027>>, <<7040, 7041>>, <<7074, 7077>>, <<7080, 7081>>,
    <<7083, 7085>>, <<7142, 7142>>, <<7144, 7145>>, <<7149, 7149>>,
    <<7151, 7153>>, <<7212, 7219>>, <<7222, 7223>>, <<7288, 7293>>,
    <<7376, 7378>>, <<7380, 7392>>, <<7394, 7400>>, <<7405, 7405>>,
    <<7412, 7412>>, <<7416, 7417>>, <<7468, 7530>>, <<7544, 7544>>,
    <<7579, 7679>>, <<8125, 8125>>, <<8127, 8129>>, <<8141, 8143>>,
    <<8157, 8159>>, <<8173, 8175>>, <<8189, 8190>>, <<8203, 8207>>,
    <<8216, 8217>>, <<8228, 8228>>, <<8231, 8231>>, <<8234, 8238>>,
    <<8288, 8292>>, <<8294, 8303>>, <<8305, 8305>>, <<8319, 8319>>,
    <<8336, 8348>>, <<8400, 8432>>, <<11388, 11389>>, <<11503, 11505>>,
    <<11631, 11631>>, <<11647, 11647>>, <<11744, 11775>>,
    <<11823, 11823>>, <<12293, 12293>>, <<12330, 12333>>,
    <<12337, 12341>>, <<12347, 12347>>, <<12441, 12446>>,
    <<12540, 12542>>, <<40981, 40981>>, <<42232, 42237>>,
    <<42508, 42508>>, <<42607, 42610>>, <<42612, 42621>>,
    <<42623, 42623>>, <<42652, 42655>>, <<42736, 42737>>,
    <<42752, 42785>>, <<42864, 42864>>, <<42888, 42890>>,
    <<42994, 42996>>, <<43000, 43001>>, <<43010, 43010>>,
    <<43014, 43014>>, <<43019, 43019>>, <<43045, 43046>>,
    <<43052, 43052>>, <<43204, 43205>>, <<43232, 43249>>,
    <<43263, 43263>>, <<43302, 43309>>, <<43335, 43345>>,
    <<43392, 43394>>, <<43443, 43443>>, <<43446, 43449>>,
    <<43452, 43453>>, <<43471, 43471>>, <<43493, 43494>>,
    <<43561, 43566>>, <<43569, 43570>>, <<43573, 43574>>,
    <<43587, 43587>>, <<43596, 43596>>, <<43632, 43632>>,
    <<43644, 43644>>, <<43696, 43696>>, <<43698, 43700>>,
    <<43703, 43704>>, <<43710, 43711>>, <<43713, 43713>>,
    <<43741, 43741>>, <<43756, 43757>>, <<43763, 43764>>,
    <<43766, 43766>>, <<43867, 43871>>, <<43881, 43883>>,
    <<44005, 44005>>, <<44008, 44008>>, <<44013, 44013>>,
    <<64286, 64286>>, <<64434, 64450>>, <<65024, 65039>>,
    <<65043, 65043>>, <<65056, 65071>>, <<65106, 65106>>,
    <<65109, 65109>>, <<65279, 65279>>, <<65287, 65287>>,
    <<65294, 65294>>, <<65306, 65306>>, <<65342, 65342>>,
    <<65344, 65344>>, <<65392, 65392>>, <<65438, 65439>>,
    <<65507, 65507>>, <<65529, 65531>>, <<66045, 66045>>,
    <<66272, 66272>>, <<66422, 66426>>, <<67456, 67461>>,
    <<67463, 67504>>, <<67506, 67514>>, <<68097, 68099>>,
    <<68101, 68102>>, <<68108, 68111>>, <<68152, 68154>>,
    <<68159, 68159>>, <<68325, 68326>>, <<68900, 68903>>,
    <<69291, 69292>>, <<69373, 69375>>, <<69446, 69456>>,
    <<69506, 69509>>, <<69633, 69633>>, <<69688, 69702>>,
    <<69744, 69744>>, <<69747, 69748>>, <<69759, 69761>>,
    <<69811, 69814>>, <<69817, 69818>>, <<69821, 69821>>,
    <<69826, 69826>>, <<69837, 69837>>, <<69888, 69890>>,
    <<69927, 69931>>, <<69933, 69940>>, <<70003, 70003>>,
    <<70016, 70017>>, <<70070, 70078>>, <<70089, 70092>>,
    <<70095, 70095>>, <<70191, 70193>>, <<70196, 70196>>,
    <<70198, 70199>>, <<70206, 70206>>, <<70209, 70209>>,
    <<70367, 70367>>, <<70371, 70378>>, <<70400, 70401>>,
    <<70459, 70460>>, <<70464, 70464>>, <<70502, 70508>>,
    <<70512, 70516>>, <<70712, 70719>>, <<70722, 70724>>,
    <<70726, 70726>>, <<70750, 70750>>, <<70835, 70840>>,
    <<70842, 70842>>, <<70847, 70848>>, <<70850, 70851>>,
    <<71090, 71093>>, <<71100, 71101>>, <<71103, 71104>>,
    <<71132, 71133>>, <<71219, 71226>>, <<71229, 71229>>,
    <<71231, 71232>>, <<71339, 71339>>, <<71341, 71341>>,
    <<71344, 71349>>, <<71351, 71351>>, <<71453, 71453>>, <<71455, 71455>>,
    <<71458, 71461>>, <<71463, 71467>>, <<71727, 71735>>,
    <<71737, 71738>>, <<71995, 71996>>, <<71998, 71998>>,
    <<72003, 72003>>, <<72148, 72151>>, <<72154, 72155>>,
    <<72160, 72160>>, <<72193, 72202>>, <<72243, 72248>>,
    <<72251, 72254>>, <<72263, 72263>>, <<72273, 72278>>,
    <<72281, 72283>>, <<72330, 72342>>, <<72344, 72345>>,
    <<72752, 72758>>, <<72760, 72765>>, <<72767, 72767>>,
    <<72850, 72871>>, <<72874, 72880>>, <<72882, 72883>>,
    <<72885, 72886>>, <<73009, 73014>>, <<73018, 73018>>,
    <<73020, 73021>>, <<73023, 73029>>, <<73031, 73031>>,
    <<73104, 73105>>, <<73109, 73109>>, <<73111, 73111>>,
    <<73459, 73460>>, <<73472, 73473>>, <<73526, 73530>>,
    <<73536, 73536>>, <<73538, 73538>>, <<78896, 78912>>,
    <<78919, 78933>>, <<92912, 92916>>, <<92976, 92982>>,
    <<92992, 92995>>, <<94031, 94031>>, <<94095, 94111>>,
    <<94176, 94177>>, <<94179, 94180>>, <<110576, 110579>>,
    <<110581, 110587>>, <<110589, 110590>>, <<113821, 113822>>,
    <<113824, 113827>>, <<118528, 118573>>, <<118576, 118598>>,
    <<119143, 119145>>, <<119155, 119170>>, <<119173, 119179>>,
    <<119210, 119213>>, <<119362, 119364>>, <<121344, 121398>>,
    <<121403, 121452>>, <<121461, 121461>>, <<121476, 121476>>,
    <<121499, 121503>>, <<121505, 121519>>, <<122880, 122886>>,
    <<122888, 122904>>, <<122907, 122913>>, <<122915, 122916>>,
    <<122918, 122922>>, <<122928, 122989>>, <<123023, 123023>>,
    <<123184, 123197>>, <<123566, 123566>>, <<123628, 123631>>,
    <<124139, 124143>>, <<125136, 125142>>, <<125252, 125259>>,
    <<127995, 127999>>, <<917505, 917505>>, <<917536, 917631>>,
    <<917760, 917999>>}
    \cup (IF sUnicode = "17.0"
          THEN {<<2199, 2199>>, <<6863, 6877>>, <<6880, 6891>>,
                <<42993, 42993>>, <<68942, 68942>>, <<68969, 68973>>,
                <<68975, 68975>>, <<69317, 69317>>, <<69370, 69372>>,
                <<70587, 70592>>, <<70606, 70606>>, <<70608, 70608>>,
                <<70610, 70610>>, <<70625, 70626>>, <<72544, 72544>>,
                <<72546, 72548>>, <<72550, 72550>>, <<73177, 73177>>,
                <<73562, 73562>>, <<90398, 90409>>, <<90413, 90415>>,
                <<93504, 93506>>, <<93547, 93548>>, <<94194, 94195>>,
                <<124398, 124399>>, <<124643, 124643>>,
                <<124646, 124646>>, <<124654, 124655>>,
                <<124661, 124661>>, <<124671, 124671>>}
          ELSE {<<71454, 71454>>})

\* c lies in one of the ranges rs
InRanges(c, rs) == \E r \in rs : r[1] <= c /\ c <= r[2]

\* the Final_Sigma condition of the Unicode standard for the code point at i:
\* a cased letter comes before it and none comes after it, Case_Ignorable
\* code points skipped on both sides
FinalSigma(cps, i) ==
    LET before == {j \in 1..(i - 1) : ~InRanges(cps[j], CaseIgnorableRanges)}
        after == {j \in (i + 1)..Len(cps) : ~InRanges(cps[j], CaseIgnorableRanges)}
        last == CHOOSE j \in before : \A k \in before : k <= j
        next == CHOOSE j \in after : \A k \in after : j <= k
    IN  /\ before /= {}
        /\ InRanges(cps[last], CasedRanges)
        /\ (after = {} \/ ~InRanges(cps[next], CasedRanges))

\* the lower case of the code point at i: the capital sigma (U+03A3) gives
\* the final sigma (U+03C2) at the end of a word and the small sigma
\* (U+03C3) elsewhere, the dotted capital I (U+0130) gives i followed by the
\* combining dot (U+0307), a code point with a simple mapping gives its
\* image, and any other is kept
LowerOf(cps, i) ==
    LET c == cps[i]
        maps == {r \in LowerRanges :
                    r[1] <= c /\ c <= r[2] /\ (c - r[1]) % r[3] = 0}
    IN  IF c = 931 THEN <<IF FinalSigma(cps, i) THEN 962 ELSE 963>>
        ELSE IF c = 304 THEN <<105, 775>>
        ELSE IF maps /= {} THEN <<c + (CHOOSE r \in maps : TRUE)[4]>>
        ELSE <<c>>

\* String.prototype.toLowerCase
toLowerCase(us) ==
    LET cps == CodePoints(us)
        lower[i \in 0..Len(cps)] ==
            IF i = 0 THEN <<>> ELSE lower[i - 1] \o LowerOf(cps, i)
    IN  CodeUnits(lower[Len(cps)])

\* String.prototype.includes: needle occurs in hay as a substring
includes(hay, needle) ==
    \E i \in 0..(Len(hay) - Len(needle)) : SubSeq(hay, i + 1, i + Len(needle)) = needle

\* fmt(value, ""): null, undefined and "" give the fallback "", else the string
fmtText(x) == IF x.t = "str" THEN x.s ELSE <<>>
fmtStr(x) == IF x.t = "str" THEN x.s ELSE ""

\* unwrapNumber: a number is returned as it is, null and undefined give null
unwrapNumber(x) == IF x.t = "num" THEN x ELSE NullNum

\* a bound that excludes the value equal to it
InRange_Exclusive(from, to, v) ==
    /\ (Missing(from) \/ v.n > from.n)
    /\ (Missing(to) \/ v.n < to.n)

\* const inRange = (from === null || from === undefined || v >= from) &&
\*                 (to === null || to === undefined || v <= to)
InRange(from, to, v) ==
    /\ (Missing(from) \/ v.n >= from.n)
    /\ (Missing(to) \/ v.n <= to.n)

\* (from !== null || to !== null) && v !== null
RangeConsidered(from, to, v) == (NotNull(from) \/ NotNull(to)) /\ NotNull(v)

\* every dimension weighing 2
Weight_Flat(dim) == 2

\* maxScore += w / score += w of each dimension
Weight(dim) ==
    CASE dim = "marketing_type" -> 3
      [] dim = "city" -> 3
      [] dim = "price" -> 2
      [] dim = "base_rent" -> 2
      [] dim = "number_of_rooms" -> 2
      [] dim = "living_space" -> 1
      [] dim = "rs_type" -> 2

\* the seven checks of one loop iteration, in the order of the code:
\* whether the check is entered, and whether it matches
Checks(property, sp) ==
    LET propCity == fmtText(property.city)
        propPrice == unwrapNumber(property.price)
        propRent == unwrapNumber(property.base_rent)
        propRooms == unwrapNumber(property.number_of_rooms)
        propSpace == unwrapNumber(property.living_space)
        propRsType == fmtStr(property.rs_type)
    IN  << [dim |-> "marketing_type",
            considered |-> TruthyStr(sp.marketing_type) /\ TruthyStr(property.marketing_type),
            matched |-> sp.marketing_type.s = property.marketing_type.s],
           [dim |-> "city",
            considered |-> HasElements(sp.cities) /\ propCity /= <<>>,
            matched |-> \E k \in 1..Len(sp.cities.l) :
                            includes(toLowerCase(propCity), toLowerCase(sp.cities.l[k]))],
           [dim |-> "price",
            considered |-> RangeConsidered(sp.price, sp.price_to, propPrice),
            matched |-> InRange(sp.price, sp.price_to, propPrice)],
           [dim |-> "base_rent",
            considered |-> RangeConsidered(sp.base_rent, sp.base_rent_to, propRent),
            matched |-> InRange(sp.base_rent, sp.base_rent_to, propRent)],
           [dim |-> "number_of_rooms",
            considered |-> RangeConsidered(sp.number_of_rooms, sp.number_of_rooms_to, propRooms),
            matched |-> InRange(sp.number_of_rooms, sp.number_of_rooms_to, propRooms)],
           [dim |-> "living_space",
            considered |-> RangeConsidered(sp.living_space, sp.living_space_to, propSpace),
            matched |-> InRange(sp.living_space, sp.living_space_to, propSpace)],
           [dim |-> "rs_type",
            considered |-> HasElements(sp.rs_types) /\ propRsType /= "",
            matched |-> \E k \in 1..Len(sp.rs_types.l) : sp.rs_types.l[k] = propRsType] >>

\* the body of the for loop from `let score = 0` on: the entered checks add
\* to maxScore and push on matches or mismatches, the matching ones add to score
RECURSIVE Accumulate(_, _, _)
Accumulate(checks, i, acc) ==
    IF i > Len(checks) THEN acc
    ELSE LET c == checks[i]
             w == Weight(c.dim)
         IN  Accumulate(checks, i + 1,
                 IF ~c.considered THEN acc
                 ELSE IF c.matched
                      THEN [acc EXCEPT !.maxScore = @ + w, !.score = @ + w,
                                       !.matches = Append(@, c.dim)]
                      ELSE [acc EXCEPT !.maxScore = @ + w,
                                       !.mismatches = Append(@, c.dim)])

\* score, maxScore, matches and mismatches of one profile
ScoreProfile(property, sp) ==
    Accumulate(Checks(property, sp), 1,
        [profileId |-> sp.id, clientId |-> sp.client_id, score |-> 0, maxScore |-> 0,
         matches |-> <<>>, mismatches |-> <<>>])

\* skipping no profile
Skipped_None(sp) == FALSE

\* if (!sp.active) continue;
Skipped(sp) == sp.active /= "true"

\* keeping every scored profile
Kept_All(r) == r.score >= 0

\* if (score > 0) results.push(...)
Kept(r) == r.score > 0

\* the MatchResult of every active profile, in list order
RECURSIVE ScoreAll(_, _, _)
ScoreAll(property, profiles, i) ==
    IF i > Len(profiles) THEN <<>>
    ELSE (IF Skipped(profiles[i]) THEN <<>> ELSE <<ScoreProfile(property, profiles[i])>>)
             \o ScoreAll(property, profiles, i + 1)

\* results: the pushed MatchResults
RECURSIVE SelectKept(_, _)
SelectKept(scored, i) ==
    IF i > Len(scored) THEN <<>>
    ELSE (IF Kept(scored[i]) THEN <<scored[i]>> ELSE <<>>) \o SelectKept(scored, i + 1)

\* ordering by score only
Compare_ScoreOnly(a, b) == b.score - a.score

\* (a, b) => b.score - a.score || a.mismatches.length - b.mismatches.length
Compare(a, b) ==
    IF b.score - a.score /= 0 THEN b.score - a.score
    ELSE Len(a.mismatches) - Len(b.mismatches)

\* x put behind the last element that does not sort after it
Insert(sorted, x) ==
    LET before == {k \in 1..Len(sorted) : Compare(sorted[k], x) <= 0}
        n == IF before = {} THEN 0 ELSE CHOOSE k \in before : \A j \in before : j <= k
    IN  SubSeq(sorted, 1, n) \o <<x>> \o SubSeq(sorted, n + 1, Len(sorted))

\* Array.prototype.sort with the comparator: a stable sort
RECURSIVE Sort(_, _, _)
Sort(list, i, acc) ==
    IF i > Len(list) THEN acc ELSE Sort(list, i + 1, Insert(acc, list[i]))

TOP_N == 20

\* results.slice(0, 20)
Top(results) == SubSeq(results, 1, Min(TOP_N, Len(results)))

\* reporting the number of listed results
Found_Listed(results, top) == Len(top)

\* Found **${results.length}** matching profiles
Found(results, top) == Len(results)

\* the text returned: "No matching search profiles found ... Checked N", or
\* the header with the counts followed by the lines of top
ScoreReport(profiles, results, top) ==
    IF Len(top) = 0
    THEN [kind |-> "noMatch", found |-> 0, outOf |-> Len(profiles), showing |-> 0,
          lines |-> <<>>]
    ELSE [kind |-> "matches", found |-> Found(results, top), outOf |-> Len(profiles),
          showing |-> Len(top), lines |-> top]

\* a profile without any criterion: every field absent from the JSON object
AbsentProfile ==
    [id |-> 0, client_id |-> 0, active |-> "true",
     marketing_type |-> UndefStr, cities |-> UndefList, rs_types |-> UndefList,
     price |-> UndefNum, price_to |-> UndefNum,
     base_rent |-> UndefNum, base_rent_to |-> UndefNum,
     number_of_rooms |-> UndefNum, number_of_rooms_to |-> UndefNum,
     living_space |-> UndefNum, living_space_to |-> UndefNum]

\* a profile without any criterion: every field null
NullProfile ==
    [id |-> 0, client_id |-> 0, active |-> "true",
     marketing_type |-> NullStr, cities |-> NullList, rs_types |-> NullList,
     price |-> NullNum, price_to |-> NullNum,
     base_rent |-> NullNum, base_rent_to |-> NullNum,
     number_of_rooms |-> NullNum, number_of_rooms_to |-> NullNum,
     living_space |-> NullNum, living_space_to |-> NullNum]

\* "Berlin", "Potsdam", "Munich" and "MUNICH"
Berlin == <<66, 101, 114, 108, 105, 110>>
Potsdam == <<80, 111, 116, 115, 100, 97, 109>>
Munich == <<77, 117, 110, 105, 99, 104>>
MunichCapitals == <<77, 85, 78, 73, 67, 72>>
\* "Köln", "KÖLN", "İstanbul" and "i̇stanbul" (i, U+0307, s, ...)
Cologne == <<75, 246, 108, 110>>
CologneCapitals == <<75, 214, 76, 78>>
Istanbul == <<304, 115, 116, 97, 110, 98, 117, 108>>
IstanbulSmall == <<105, 775, 115, 116, 97, 110, 98, 117, 108>>
\* "Ᲊ" (U+1C89) and "ᲊ" (U+1C8A), a pair of letters the runtime knows
\* as capital and small from Unicode 16.0 on
Tje == <<7305>>
TjeSmall == <<7306>>
\* " Mitte"
Mitte == <<32, 77, 105, 116, 116, 101>>

\* {marketing_type: "BUY", city: "Berlin", price: 350000}
RefProperty ==
    [marketing_type |-> Str("BUY"), city |-> Text(Berlin), price |-> Num(350000),
     base_rent |-> UndefNum, number_of_rooms |-> UndefNum, living_space |-> UndefNum,
     rs_type |-> UndefStr]

\* a flat to let, every attribute set
RentProperty ==
    [marketing_type |-> Str("RENT"), city |-> Text(MunichCapitals),
     price |-> NullNum, base_rent |-> Num(1200), number_of_rooms |-> Num(3),
     living_space |-> Num(80), rs_type |-> Str("APARTMENT")]

\* a property without attributes
BareProperty ==
    [marketing_type |-> NullStr, city |-> NullText, price |-> NullNum,
     base_rent |-> NullNum, number_of_rooms |-> NullNum, living_space |-> NullNum,
     rs_type |-> NullStr]

\* a house for sale at price 0 in a district of Berlin
HouseProperty ==
    [marketing_type |-> Str("BUY"),
     city |-> Text(Berlin \o Mitte),
     price |-> Num(0), base_rent |-> NullNum, number_of_rooms |-> Num(5),
     living_space |-> Num(140), rs_type |-> Str("HOUSE")]

\* {marketing_type: "BUY", city: "KÖLN", price: 350000}
CologneProperty == [RefProperty EXCEPT !.city = Text(CologneCapitals)]

\* {marketing_type: "BUY", city: "İstanbul", price: 350000}
IstanbulProperty == [RefProperty EXCEPT !.city = Text(Istanbul)]

\* {marketing_type: "BUY", city: "Ᲊ", price: 350000}
TjeProperty == [RefProperty EXCEPT !.city = Text(Tje)]

Properties ==
    {RefProperty, RentProperty, BareProperty, HouseProperty, CologneProperty,
     IstanbulProperty, TjeProperty}

\* {marketing_type: "BUY", cities: ["Berlin","Potsdam"], price: 300000, price_to: 400000}
BuyBerlin ==
    [AbsentProfile EXCEPT !.marketing_type = Str("BUY"),
                          !.cities = List(<<Berlin, Potsdam>>),
                          !.price = Num(300000), !.price_to = Num(400000)]

\* {cities: ["Köln", "i̇stanbul"]} (the city names in small letters), every
\* other field null
CitiesAbroad ==
    [NullProfile EXCEPT
        !.cities = List(<<Cologne, IstanbulSmall>>)]

\* {marketing_type: "BUY", cities: ["ᲊ"]}, every other field null
BuyTje ==
    [NullProfile EXCEPT !.marketing_type = Str("BUY"), !.cities = List(<<TjeSmall>>)]

\* {marketing_type: "RENT", cities: ["Munich"]}, the other fields absent
RentMunich ==
    [AbsentProfile EXCEPT !.marketing_type = Str("RENT"), !.cities = List(<<Munich>>)]

\* the same criteria, the other fields null
RentMunichNulls ==
    [NullProfile EXCEPT !.marketing_type = Str("RENT"), !.cities = List(<<Munich>>)]

\* a tenant's profile with every range set: rent up to exactly 1200, 3 rooms,
\* at least 81 m2
RentRanges ==
    [NullProfile EXCEPT !.marketing_type = Str("RENT"), !.cities = List(<<Munich>>),
                        !.rs_types = List(<<"HOUSE", "APARTMENT">>),
                        !.base_rent = Num(1000), !.base_rent_to = Num(1200),
                        !.number_of_rooms = Num(3), !.number_of_rooms_to = Num(3),
                        !.living_space = Num(81)]

\* profiles of equal score with 0, 1 and 2 mismatches
BuyOnly == [NullProfile EXCEPT !.marketing_type = Str("BUY")]
BuyElsewhere ==
    [NullProfile EXCEPT !.marketing_type = Str("BUY"), !.cities = List(<<Munich>>)]
BuyElsewhereDear ==
    [NullProfile EXCEPT !.marketing_type = Str("BUY"), !.cities = List(<<Munich>>),
                        !.price = Num(400000), !.rs_types = List(<<"OFFICE">>)]

\* bounds of a price range around the reference price, present, null or absent
PriceFroms == {NullNum, UndefNum, Num(0), Num(300000), Num(350000), Num(350001)}
PriceTos == {NullNum, UndefNum, Num(0), Num(349999), Num(350000), Num(400000)}

PriceProfiles ==
    {[NullProfile EXCEPT !.price = f, !.price_to = t] : f \in PriceFroms, t \in PriceTos}

\* profiles that are not active
InactiveProfiles == {[BuyBerlin EXCEPT !.active = a] : a \in {"false", "null", "undefined"}}

RankedTemplates == {BuyBerlin, BuyOnly, BuyElsewhere, BuyElsewhereDear, RentMunichNulls}

\* list lengths around the size of the top list
LongLengths == {21, 25, 26, 30}

LongPattern == <<BuyElsewhereDear, BuyOnly, RentMunichNulls, BuyBerlin, BuyElsewhere>>

\* sp.id and sp.client_id: set by the position in the list
WithIds(list) ==
    [i \in 1..Len(list) |-> [list[i] EXCEPT !.id = i, !.client_id = 100 + i]]

\* allProfiles as the pagination of step 2 can leave it (never empty here)
ProfileLists ==
    {WithIds(<<p>>) : p \in PriceProfiles \cup InactiveProfiles
                              \cup {RentMunich, RentRanges, CitiesAbroad, BuyTje}
                              \cup RankedTemplates}
    \cup {WithIds(<<p, q>>) : p, q \in RankedTemplates \cup {RentMunich}}
    \cup {WithIds(<<p, q>>) : p \in InactiveProfiles, q \in {BuyBerlin, BuyElsewhere}}
    \cup {WithIds(<<q, p>>) : p \in InactiveProfiles, q \in {BuyBerlin, BuyElsewhere}}
    \cup {WithIds(<<p, q, r>>) : p, q, r \in {BuyOnly, BuyElsewhere, BuyElsewhereDear}}
    \cup {WithIds([i \in 1..n |-> LongPattern[(i % Len(LongPattern)) + 1]]) : n \in LongLengths}

ScoreInit ==
    /\ sUnicode \in UnicodeVersions
    /\ sProperty \in Properties
    /\ sProfiles \in ProfileLists
    /\ sPc = "score"
    /\ sScored = <<>>
    /\ sResults = <<>>
    /\ sTop = <<>>
    /\ sResult = NoResult

\* step 3 to the return: the loop over allProfiles, the sort, the slice and
\* the report (no await in between)
ScoreAndRank ==
    /\ sPc = "score"
    /\ LET scored == ScoreAll(sProperty, sProfiles, 1)
           results == Sort(SelectKept(scored, 1), 1, <<>>)
           top == Top(results)
       IN  /\ sScored' = scored
           /\ sResults' = results
           /\ sTop' = top
           /\ sResult' = ScoreReport(sProfiles, results, top)
    /\ sPc' = "done"
    /\ UNCHANGED <<sProperty, sProfiles, sUnicode>>
    /\ UNCHANGED notScore

ScoreNext == ScoreAndRank

(***************************************************************************)
(* pipeline_summary: the aggregation of the fetched deals                  *)
(***************************************************************************)

\* an ISO timestamp string of a record: day number and millisecond of the day
Time(d, ms) == [t |-> "str", d |-> d, ms |-> ms]
NullTime == [t |-> "null", d |-> 0, ms |-> 0]
UndefTime == [t |-> "undefined", d |-> 0, ms |-> 0]

\* new Date(s).getTime()
getTime(ts) == ts.d * (24 * 60 * 60 * 1000) + ts.ms

\* const staleThresholdMs = 14 * 24 * 60 * 60 * 1000;
staleThresholdMs == 14 * 24 * 60 * 60 * 1000

Digits == <<"0", "1", "2", "3", "4", "5", "6", "7", "8", "9">>

\* the decimal text of a number in a template string
RECURSIVE DecimalText(_)
DecimalText(n) ==
    IF n < 10 THEN Digits[n + 1] ELSE DecimalText(n \div 10) \o Digits[(n % 10) + 1]

\* x ?? fallback for a string field
OrElse(x, fallback) == IF x.t = "str" THEN x.s ELSE fallback

\* stageNames after the loop over the pipelines up to pipeline i and, in it,
\* stage j: stageNames[s.id] = s.name ?? "Unnamed"
RECURSIVE StageNamesFrom(_, _, _, _)
StageNamesFrom(pipelines, i, j, acc) ==
    IF i > Len(pipelines) THEN acc
    ELSE IF pipelines[i].deal_stages.t /= "list" \/ j > Len(pipelines[i].deal_stages.l)
    THEN StageNamesFrom(pipelines, i + 1, 1, acc)
    ELSE LET s == pipelines[i].deal_stages.l[j]
         IN  StageNamesFrom(pipelines, i, j + 1,
                 [id \in DOMAIN acc \cup {s.id} |->
                     IF id = s.id THEN OrElse(s.name, "Unnamed") ELSE acc[id]])

StageNames(pipelines) == StageNamesFrom(pipelines, 1, 1, <<>>)

\* d.deal_stage_id ? (stageNames[d.deal_stage_id] ?? `Stage #${d.deal_stage_id}`) : "No stage"
StageKey(stageNames, d) ==
    IF d.deal_stage_id.t = "num" /\ d.deal_stage_id.n /= 0
    THEN IF d.deal_stage_id.n \in DOMAIN stageNames
         THEN stageNames[d.deal_stage_id.n]
         ELSE "Stage #" \o DecimalText(d.deal_stage_id.n)
    ELSE "No stage"

\* d.property?.price
PropertyPrice(d) == IF d.property.t = "obj" THEN d.property.price ELSE UndefNum

\* the property price before the sold price
ResolvedPrice_PropertyFirst(d) ==
    IF unwrapNumber(PropertyPrice(d)).t = "num" THEN unwrapNumber(PropertyPrice(d)).n
    ELSE IF unwrapNumber(d.sold_price).t = "num" THEN unwrapNumber(d.sold_price).n
    ELSE 0

\* unwrapNumber(d.sold_price) ?? unwrapNumber(d.property?.price) ?? 0
ResolvedPrice(d) ==
    IF unwrapNumber(d.sold_price).t = "num" THEN unwrapNumber(d.sold_price).n
    ELSE IF unwrapNumber(PropertyPrice(d)).t = "num" THEN unwrapNumber(PropertyPrice(d)).n
    ELSE 0

\* d.updated_at ?? d.created_at
LastUpdate(d) == IF Missing(d.updated_at) THEN d.created_at ELSE d.updated_at

\* stale from the threshold on
IsStale_AtThreshold(d, now) ==
    /\ LastUpdate(d).t = "str"
    /\ getTime(now) - getTime(LastUpdate(d)) >= staleThresholdMs

\* lastUpdate && (now.getTime() - new Date(lastUpdate).getTime()) > staleThresholdMs
IsStale(d, now) ==
    /\ LastUpdate(d).t = "str"
    /\ getTime(now) - getTime(LastUpdate(d)) > staleThresholdMs

\* property names every object literal {} inherits from Object.prototype
ObjectPrototypeKeys ==
    {"constructor", "__proto__", "toString", "toLocaleString", "valueOf",
     "hasOwnProperty", "isPrototypeOf", "propertyIsEnumerable",
     "__defineGetter__", "__defineSetter__", "__lookupGetter__", "__lookupSetter__"}

\* stageStats[stageName] of an object literal: truthy for an own bucket and
\* for an inherited member
StatsTruthy(stats, key) == key \in DOMAIN stats \/ key \in ObjectPrototypeKeys

\* TypeError thrown by `.deals.push(d)` on an inherited member
PushTypeError ==
    [type |-> "TypeError", status |-> 0,
     msg |-> "Cannot read properties of undefined (reading 'push')", at |-> -1]

\* if (!stageStats[stageName]) stageStats[stageName] = { count: 0, value: 0, deals: [] };
BucketBefore(stats, key) ==
    IF key \in DOMAIN stats THEN stats[key] ELSE [count |-> 0, value |-> 0, deals |-> <<>>]

NoBuckets == [stats |-> <<>>, stale |-> <<>>, totalDeals |-> 0, totalValue |-> 0,
              thrown |-> FALSE]

\* one iteration of `for (const d of dealList)`
AggregateDeal(stageNames, now, acc, d) ==
    LET key == StageKey(stageNames, d)
        price == ResolvedPrice(d)
        old == BucketBefore(acc.stats, key)
    IN  IF key \notin DOMAIN acc.stats /\ StatsTruthy(acc.stats, key)
        THEN [acc EXCEPT !.totalDeals = @ + 1, !.totalValue = @ + price, !.thrown = TRUE]
        ELSE [stats |-> [k \in DOMAIN acc.stats \cup {key} |->
                            IF k = key
                            THEN [count |-> old.count + 1, value |-> old.value + price,
                                  deals |-> Append(old.deals, d.id)]
                            ELSE acc.stats[k]],
              stale |-> IF IsStale(d, now) THEN Append(acc.stale, d.id) ELSE acc.stale,
              totalDeals |-> acc.totalDeals + 1,
              totalValue |-> acc.totalValue + price,
              thrown |-> FALSE]

\* the loop, left at the first throw
RECURSIVE Aggregate(_, _, _, _, _)
Aggregate(stageNames, now, deals, i, acc) ==
    IF i > Len(deals) \/ acc.thrown THEN acc
    ELSE Aggregate(stageNames, now, deals, i + 1,
                   AggregateDeal(stageNames, now, acc, deals[i]))

\* the sections built from the buckets and the stale list (10 of them listed)
AggReport(acc) ==
    [kind |-> "summary",
     stages |-> [k \in DOMAIN acc.stats |->
                    [count |-> acc.stats[k].count, value |-> acc.stats[k].value]],
     totalDeals |-> acc.totalDeals,
     totalValue |-> acc.totalValue,
     staleCount |-> Len(acc.stale),
     staleListed |-> SubSeq(acc.stale, 1, Min(10, Len(acc.stale))),
     isError |-> FALSE]

\* the moment the summary is computed: day 22, 10:00
Now == Time(22, 10 * 60 * 60 * 1000)

\* a timestamp the given number of days, and ms, before Now
Ago(days, ms) ==
    IF ms <= Now.ms THEN Time(Now.d - days, Now.ms - ms)
    ELSE Time(Now.d - days - 1, Now.ms + (24 * 60 * 60 * 1000) - ms)

NoProperty == [t |-> "undefined", price |-> UndefNum]
NullProperty == [t |-> "null", price |-> UndefNum]
Property(price) == [t |-> "obj", price |-> price]

\* no sold price, property price 200000, updated 20 days ago
Deal200 ==
    [id |-> 0, deal_stage_id |-> Num(1), sold_price |-> NullNum,
     property |-> Property(Num(200000)), updated_at |-> Ago(20, 0), created_at |-> Ago(21, 0)]

\* no sold price, property price 300000, updated 20 days ago
Deal300 ==
    [id |-> 0, deal_stage_id |-> Num(1), sold_price |-> NullNum,
     property |-> Property(Num(300000)), updated_at |-> Ago(20, 0), created_at |-> Ago(21, 0)]

\* sold price 500000, updated yesterday
Deal500 ==
    [id |-> 0, deal_stage_id |-> Num(1), sold_price |-> Num(500000),
     property |-> Property(Num(450000)), updated_at |-> Ago(1, 0), created_at |-> Ago(21, 0)]

\* no stage, no price and no timestamp
DealBare ==
    [id |-> 0, deal_stage_id |-> NullNum, sold_price |-> NullNum,
     property |-> NullProperty, updated_at |-> NullTime, created_at |-> NullTime]

\* a stage missing from the lookup, sold for 0, only created (14 days and 1 ms ago)
DealUnknownStage ==
    [id |-> 0, deal_stage_id |-> Num(7), sold_price |-> Num(0),
     property |-> Property(Num(100000)), updated_at |-> UndefTime, created_at |-> Ago(14, 1)]

\* second stage, no property, updated exactly 14 days ago
DealAtThreshold ==
    [id |-> 0, deal_stage_id |-> Num(2), sold_price |-> UndefNum,
     property |-> NoProperty, updated_at |-> Ago(14, 0), created_at |-> Ago(20, 0)]

\* third stage, property without price, updated tomorrow by the upstream's clock
DealThirdStage ==
    [id |-> 0, deal_stage_id |-> Num(3), sold_price |-> NullNum,
     property |-> Property(NullNum), updated_at |-> Time(Now.d + 1, 0), created_at |-> Ago(20, 0)]

DealTemplates ==
    {Deal200, Deal300, Deal500, DealBare, DealUnknownStage, DealAtThreshold, DealThirdStage}

\* d.id: the position in the list
WithDealIds(list) == [i \in 1..Len(list) |-> [list[i] EXCEPT !.id = i]]

\* the longest deal list aggregated
MaxDealListLen == 3

RECURSIVE DealListsOf(_)
DealListsOf(n) ==
    IF n = 0 THEN {<<>>}
    ELSE {Append(l, d) : l \in DealListsOf(n - 1), d \in DealTemplates}

DealLists == UNION {{WithDealIds(l) : l \in DealListsOf(n)} : n \in 0..MaxDealListLen}

Stage(id, name) == [id |-> id, name |-> name]
Pipeline(id, name, stages) == [id |-> id, name |-> name, deal_stages |-> stages]

\* the pipelines of the account
PipelineSets ==
    { <<Pipeline(1, Str("Sales"),
                 List(<<Stage(1, Str("New")), Stage(2, Str("Won")), Stage(3, Str("Lost"))>>))>>,
      <<Pipeline(1, Str("Sales"), List(<<Stage(1, Str("New")), Stage(2, NullStr)>>)),
        Pipeline(2, NullStr, NullList)>>,
      <<Pipeline(1, Str("Sales"), List(<<Stage(1, Str("New"))>>)),
        Pipeline(2, Str("Rentals"),
                 List(<<Stage(2, Str("New")), Stage(3, Str("Stage #7"))>>))>>,
      <<Pipeline(1, Str("Sales"),
                 List(<<Stage(1, Str("New")), Stage(2, Str("No stage")),
                        Stage(3, Str("constructor"))>>))>>,
      <<Pipeline(1, Str("Sales"),
                 List(<<Stage(1, Str("New")), Stage(2, Str("__defineGetter__"))>>))>> }

AggInit ==
    /\ aPipelines \in PipelineSets
    /\ aDeals \in DealLists
    /\ aNow = Now
    /\ aPc = "aggregate"
    /\ aStats = <<>>
    /\ aStale = <<>>
    /\ aTotals = <<>>
    /\ aResult = NoResult

\* from `const dealList` to the return: the lookup, the loop, the sections;
\* a throw inside is caught by the handler's catch
AggregateAndReport ==
    /\ aPc = "aggregate"
    /\ LET acc == Aggregate(StageNames(aPipelines), aNow, aDeals, 1, NoBuckets)
       IN  /\ aStats' = acc.stats
           /\ aStale' = acc.stale
           /\ aTotals' = [totalDeals |-> acc.totalDeals, totalValue |-> acc.totalValue]
           /\ aResult' = IF acc.thrown THEN errorResult("Pipeline summary", PushTypeError)
                         ELSE AggReport(acc)
    /\ aPc' = "done"
    /\ UNCHANGED <<aPipelines, aDeals, aNow>>
    /\ UNCHANGED notAgg

AggNext == AggregateAndReport

(***************************************************************************)
(* A tool with one request: get_contact                                    *)
(***************************************************************************)

\* return textResult(formatContact(contact));
ToolSuccess(entity) ==
    [kind |-> "success", entity |-> entity, text |-> "formatted", isError |-> FALSE,
     err |-> NoError, shownTotal |-> -1, outOf |-> -1, warnings |-> <<>>]

\* what formatContact(c) throws at c.name for c undefined or null
FormatTypeError ==
    [type |-> "TypeError", status |-> 0, msg |-> "Cannot read properties", at |-> -1]

\* formatContact(contact) reads contact.name: it throws unless the value is
\* an object
FormatThrows(value) == value \in {"undefined", "null"}

ToolInit == tPc = "await" /\ tResult = NoResult

\* the await resumes with the value, which is formatted inside the try, or
\* the catch gets what request() or formatContact threw
ToolReturn ==
    /\ tPc = "await"
    /\ rPc = "done"
    /\ tResult' = IF rResult.kind = "throw" THEN errorResult("Contact", rResult.err)
                  ELSE IF FormatThrows(rResult.value)
                  THEN errorResult("Contact", FormatTypeError)
                  ELSE ToolSuccess("Contact")
    /\ tPc' = "done"
    /\ UNCHANGED reqVars
    /\ UNCHANGED <<walkVars, fanVars, scoreVars, aggVars, intakeVars>>

ToolNext ==
    \/ ReqBackoff
    \/ ReqExhausted
    \/ \E o \in FetchOutcomes : ReqFetch(o)
    \/ \E b \in BodyOutcomes : ReqBody(b)
    \/ ReqRetryAfter
    \/ ToolReturn

(***************************************************************************)
(* smart_lead_intake                                                       *)
(***************************************************************************)

\* which optional arguments are given: phone or email, notes or
\* property_interest, property_id
IntakeArgs == [contact : BOOLEAN, note : BOOLEAN, property : BOOLEAN]

\* existing.data of the dedup search: empty, or a first contact with this id
SearchHits == {0, 7}

\* created.id of POST /contacts
CreatedIds == {9}

\* creating a contact whatever the search found
WriteCall_AlwaysCreate(contactId) == "create"

\* if (contactId) client.put(...) else client.post(...)
WriteCall(contactId) == IF contactId /= 0 THEN "update" ELSE "create"

Task(kind) == [kind |-> kind, st |-> "pending", v |-> "none", err |-> NoError]

\* what a pushed promise can settle with: the created record, no value at
\* all (undefined for a 204 answer, null for the body `null`), or a rejection
TaskOutcomes ==
    {[st |-> "fulfilled", v |-> v, err |-> NoError] : v \in {"object", "undefined", "null"}}
        \cup {[st |-> "rejected", v |-> "none", err |-> e] : e \in WalkErrors}

\* a promise of parallelTasks that rejects while the handler is not inside
\* await Promise.allSettled(parallelTasks) has no rejection handler
Unhandled(pc, o) == o.st = "rejected" /\ pc /= "await"

\* the line of the report for one step: not attempted, done, or failed
StepLine(tasks, kind) ==
    IF \E i \in 1..Len(tasks) : tasks[i].kind = kind
    THEN LET i == CHOOSE j \in 1..Len(tasks) : tasks[j].kind = kind
         IN  IF tasks[i].st = "fulfilled" THEN "done" ELSE "failed"
    ELSE "none"

\* "## Lead Intake Complete" with the action, the contact and a line per step
IntakeReport(action, contactId, tasks) ==
    [kind |-> "report", action |-> action, contactId |-> contactId,
     note |-> StepLine(tasks, "note"), deal |-> StepLine(tasks, "deal"),
     reminder |-> StepLine(tasks, "reminder"), isError |-> FALSE]

IntakeInit ==
    /\ iArgs \in IntakeArgs
    /\ iPc = "start"
    /\ iCalls = <<>>
    /\ iFound = 0
    /\ iWritten = FALSE
    /\ iContactId = 0
    /\ iAction = "created"
    /\ iTasks = <<>>
    /\ iExited = FALSE
    /\ iResult = NoResult

\* handler entry up to the first await: the dedup search if a phone or an
\* email is given, else the contact write
IntakeStart ==
    /\ ~iExited
    /\ iPc = "start"
    /\ IF iArgs.contact
       THEN iCalls' = <<"search">> /\ iPc' = "search"
       ELSE iCalls' = <<WriteCall(iContactId)>> /\ iPc' = "write"
    /\ UNCHANGED <<iExited, iArgs, iFound, iWritten, iContactId, iAction, iTasks, iResult>>
    /\ UNCHANGED notIntake

\* the search is fulfilled: contactId and action are set if it found a
\* contact, and the write is issued
IntakeSearchDone(hit) ==
    /\ ~iExited
    /\ iPc = "search"
    /\ iFound' = hit
    /\ iContactId' = IF hit /= 0 THEN hit ELSE iContactId
    /\ iAction' = IF hit /= 0 THEN "updated" ELSE iAction
    /\ iCalls' = Append(iCalls, WriteCall(iContactId'))
    /\ iPc' = "write"
    /\ UNCHANGED <<iExited, iArgs, iWritten, iTasks, iResult>>
    /\ UNCHANGED notIntake

\* the search is rejected: the handler's catch
IntakeSearchFail(e) ==
    /\ ~iExited
    /\ iPc = "search"
    /\ iResult' = errorResult("Lead intake", e)
    /\ iPc' = "done"
    /\ UNCHANGED <<iExited, iArgs, iCalls, iFound, iWritten, iContactId, iAction, iTasks>>
    /\ UNCHANGED notIntake

\* the contact write is fulfilled; the note is posted if there is a note
\* body; then the pipelines are fetched if a property is given, else the
\* reminder is posted and the tasks are awaited
IntakeWriteDone(newId) ==
    /\ ~iExited
    /\ iPc = "write"
    /\ iWritten' = TRUE
    /\ iContactId' = IF iContactId /= 0 THEN iContactId ELSE newId
    /\ LET noteTasks == IF iArgs.note THEN <<Task("note")>> ELSE <<>>
           noteCalls == IF iArgs.note THEN <<"note">> ELSE <<>>
       IN  IF iArgs.property
           THEN /\ iTasks' = noteTasks
                /\ iCalls' = iCalls \o noteCalls \o <<"pipelines">>
                /\ iPc' = "pipelines"
           ELSE /\ iTasks' = Append(noteTasks, Task("reminder"))
                /\ iCalls' = iCalls \o noteCalls \o <<"reminder">>
                /\ iPc' = "await"
    /\ UNCHANGED <<iExited, iArgs, iFound, iAction, iResult>>
    /\ UNCHANGED notIntake

\* the contact write is rejected: the handler's catch
IntakeWriteFail(e) ==
    /\ ~iExited
    /\ iPc = "write"
    /\ iResult' = errorResult("Lead intake", e)
    /\ iPc' = "done"
    /\ UNCHANGED <<iExited, iArgs, iCalls, iFound, iWritten, iContactId, iAction, iTasks>>
    /\ UNCHANGED notIntake

\* await client.get("/deal_pipelines") is fulfilled: the deal is posted if
\* the first pipeline has a stage, the reminder is posted, the tasks awaited
IntakePipelinesDone(hasStage) ==
    /\ ~iExited
    /\ iPc = "pipelines"
    /\ IF hasStage
       THEN /\ iTasks' = iTasks \o <<Task("deal"), Task("reminder")>>
            /\ iCalls' = iCalls \o <<"deal", "reminder">>
       ELSE /\ iTasks' = Append(iTasks, Task("reminder"))
            /\ iCalls' = Append(iCalls, "reminder")
    /\ iPc' = "await"
    /\ UNCHANGED <<iExited, iArgs, iFound, iWritten, iContactId, iAction, iResult>>
    /\ UNCHANGED notIntake

\* await client.get("/deal_pipelines") is rejected: the handler's catch
IntakePipelinesFail(e) ==
    /\ ~iExited
    /\ iPc = "pipelines"
    /\ iResult' = errorResult("Lead intake", e)
    /\ iPc' = "done"
    /\ UNCHANGED <<iExited, iArgs, iCalls, iFound, iWritten, iContactId, iAction, iTasks>>
    /\ UNCHANGED notIntake

\* one of the pushed promises settles: while the handler awaits
\* GET /deal_pipelines, inside await Promise.allSettled, or after the handler
\* returned from its catch with the note request still in flight. A
\* rejection before Promise.allSettled has taken the promise is an
\* unhandled rejection: the process exits, or goes on if it is run with a
\* listener or a flag that keeps it alive
IntakeTaskSettle(i, o, exits) ==
    /\ ~iExited
    /\ iPc \in {"pipelines", "await", "done"}
    /\ i \in 1..Len(iTasks)
    /\ iTasks[i].st = "pending"
    /\ iTasks' = [iTasks EXCEPT ![i] = [kind |-> iTasks[i].kind, st |-> o.st, v |-> o.v,
                                       err |-> o.err]]
    /\ iExited' = (Unhandled(iPc, o) /\ exits)
    /\ UNCHANGED <<iArgs, iPc, iCalls, iFound, iWritten, iContactId, iAction, iResult>>
    /\ UNCHANGED notIntake

\* await Promise.allSettled(parallelTasks) resumes; the report. The line of
\* a fulfilled task reads the id of its value (note.id, deal.id,
\* reminder.id): for a value of undefined or null the read throws, and the
\* handler's catch returns errorResult of that TypeError
IntakeReturn ==
    /\ ~iExited
    /\ iPc = "await"
    /\ \A i \in 1..Len(iTasks) : iTasks[i].st /= "pending"
    /\ iResult' = IF \E i \in 1..Len(iTasks) :
                        iTasks[i].st = "fulfilled" /\ iTasks[i].v /= "object"
                  THEN errorResult("Lead intake", NoValueTypeError)
                  ELSE IntakeReport(iAction, iContactId, iTasks)
    /\ iPc' = "done"
    /\ UNCHANGED <<iExited, iArgs, iCalls, iFound, iWritten, iContactId, iAction, iTasks>>
    /\ UNCHANGED notIntake

IntakeNext ==
    \/ IntakeStart
    \/ \E hit \in SearchHits : IntakeSearchDone(hit)
    \/ \E e \in WalkErrors : IntakeSearchFail(e)
    \/ \E newId \in CreatedIds : IntakeWriteDone(newId)
    \/ \E e \in WalkErrors : IntakeWriteFail(e)
    \/ \E hasStage \in BOOLEAN : IntakePipelinesDone(hasStage)
    \/ \E e \in WalkErrors : IntakePipelinesFail(e)
    \/ \E i \in 1..Len(iTasks) : \E o \in TaskOutcomes : \E exits \in BOOLEAN :
          IntakeTaskSettle(i, o, exits)
    \/ IntakeReturn

(***************************************************************************)
(* Specifications                                                          *)
(***************************************************************************)

\* no tool is running
WalkIdle ==
    /\ wPc = "idle" /\ op = "none" /\ maxArg = NoArg /\ upMode = "none"
    /\ upCount = 0 /\ upScoring = FALSE /\ upEmpties = 0 /\ items = <<>> /\ page = 1 /\ totalCount = NoTotal /\ hasMore = TRUE
    /\ lastPer = 0 /\ lastN = 0 /\ lastTotal = NoTotal /\ failedPage = 0
    /\ failedErr = NoError
    /\ wResult = NoResult

FanIdle ==
    /\ fOp = "none" /\ fPc = "idle" /\ fCalls = <<>> /\ fOrder = <<>>
    /\ fSettled = <<>> /\ fResult = NoResult

ScoreIdle ==
    /\ sProperty = <<>> /\ sProfiles = <<>> /\ sPc = "idle" /\ sScored = <<>>
    /\ sResults = <<>> /\ sTop = <<>> /\ sResult = NoResult /\ sUnicode = "15.1"

ToolIdle == tPc = "idle" /\ tResult = NoResult

AggIdle ==
    /\ aPipelines = <<>> /\ aDeals = <<>> /\ aNow = 0 /\ aPc = "idle" /\ aStats = <<>>
    /\ aStale = <<>> /\ aTotals = <<>> /\ aResult = NoResult

IntakeIdle ==
    /\ iArgs = <<>> /\ iPc = "idle" /\ iCalls = <<>> /\ iContactId = 0
    /\ iFound = 0 /\ iWritten = FALSE
    /\ iAction = "none" /\ iTasks = <<>> /\ iExited = FALSE /\ iResult = NoResult

InitRequest == ReqInit /\ WalkIdle /\ FanIdle /\ ScoreIdle /\ AggIdle /\ IntakeIdle /\ ToolIdle

InitWalk == WalkInit /\ ReqInit /\ FanIdle /\ ScoreIdle /\ AggIdle /\ IntakeIdle /\ ToolIdle

InitFan == FanInit /\ ReqInit /\ WalkIdle /\ ScoreIdle /\ AggIdle /\ IntakeIdle /\ ToolIdle

InitScore == ScoreInit /\ ReqInit /\ WalkIdle /\ FanIdle /\ AggIdle /\ IntakeIdle /\ ToolIdle

InitTool == ToolInit /\ ReqInit /\ WalkIdle /\ FanIdle /\ ScoreIdle /\ AggIdle /\ IntakeIdle

InitIntake == IntakeInit /\ ReqInit /\ WalkIdle /\ FanIdle /\ ScoreIdle /\ AggIdle /\ ToolIdle

InitAgg == AggInit /\ ReqInit /\ WalkIdle /\ FanIdle /\ ScoreIdle /\ IntakeIdle /\ ToolIdle

\* one logical request against an arbitrary sequence of upstream outcomes
SpecRequest == InitRequest /\ [][ReqNext]_vars

\* one run of a paginating tool against an upstream
SpecWalk == InitWalk /\ [][WalkNext]_vars

\* one run of a fan-out tool, its requests settling in any order
SpecFan == InitFan /\ [][FanNext]_vars

\* step 3 of match_contacts_to_property on a fetched property and profile list
SpecScore == InitScore /\ [][ScoreNext]_vars

\* get_contact: one request and the conversion of its outcome into a result
SpecTool == InitTool /\ [][ToolNext]_vars

\* one run of smart_lead_intake
SpecIntake == InitIntake /\ [][IntakeNext]_vars

\* the aggregation of pipeline_summary on fetched pipelines and deals
SpecAgg == InitAgg /\ [][AggNext]_vars

(***************************************************************************)
(* Properties of the request executor (checked under SpecRequest)          *)
(***************************************************************************)

\* the outcome of the k-th fetch() call of the request
OutcomeAt(k) == fetchLog[k].outcome

\* a 429 response or a rejected fetch()
IsTransient(o) == o.kind = "reject" \/ (o.kind = "response" /\ o.status = 429)

\* a response with a non-2xx status other than 429
IsTerminalStatus(o) ==
    o.kind = "response" /\ o.status /= 429 /\ ~(o.status >= 200 /\ o.status <= 299)

\* C1: whatever the upstream answers, one logical request calls fetch() at
\* most 4 times (1 initial attempt and at most 3 retries).
C1_AtMostFourAttempts == Len(fetchLog) <= 4

C1_Witness ==
    /\ rPc = "done"
    /\ Len(fetchLog) = 4
    /\ OutcomeAt(1).kind = "reject"
    /\ OutcomeAt(2).status = 429
    /\ OutcomeAt(4).status = 200

\* C2: after a 429 that carries Retry-After: r, the next attempt follows
\* after exactly r seconds of waiting (the computed backoff is not added).
C2_RetryAfterReplacesBackoff ==
    \A k \in 1..(Len(fetchLog) - 1) :
        (OutcomeAt(k).kind = "response" /\ OutcomeAt(k).status = 429
            /\ OutcomeAt(k).retryAfter /= NoRetryAfter)
        => fetchLog[k + 1].at - fetchLog[k].at = OutcomeAt(k).retryAfter * 1000

\* C3: the n-th retry (n = 1, 2, 3) starts at least 1s, 2s, 4s after the
\* attempt before it, and a request that fails after 4 transient failures
\* without Retry-After has slept at least 7s.
C3_BackoffBeforeRetry ==
    /\ \A k \in 2..Len(fetchLog) :
          fetchLog[k].at - fetchLog[k - 1].at >= <<1000, 2000, 4000>>[k - 1]
    /\ (/\ rResult.kind = "throw"
        /\ Len(fetchLog) = 4
        /\ \A k \in 1..4 :
              IsTransient(OutcomeAt(k)) /\ OutcomeAt(k).retryAfter = NoRetryAfter)
       => clock >= 7000

C3_Witness ==
    /\ rResult.kind = "throw"
    /\ Len(fetchLog) = 4
    /\ \A k \in 1..4 : IsTransient(OutcomeAt(k)) /\ OutcomeAt(k).retryAfter = NoRetryAfter
    /\ OutcomeAt(2).status = 429
    /\ OutcomeAt(3).kind = "reject"
    /\ clock = 7000

\* C4: a non-2xx status other than 429 ends the request on the attempt it
\* occurs on with that failure: it is the last fetch() call, nothing but the
\* read of the response body follows it, and the request throws the
\* PropstackError of that status.
C4_TerminalStatusEndsRequest ==
    \A k \in 1..Len(fetchLog) :
        IsTerminalStatus(OutcomeAt(k))
        => /\ k = Len(fetchLog)
           /\ attempt = k - 1
           /\ rPc \in {"body", "done"}
           /\ rPc = "body" => (rRes = OutcomeAt(k).status /\ rResult.kind = "pending")
           /\ rPc = "done" =>
                  /\ rResult.kind = "throw"
                  /\ rResult.err = PropstackError(OutcomeAt(k).status, k - 1)

\* the error a transient outcome of attempt number a (0-based) stands for
TransientErrorOf(o, a) ==
    IF o.kind = "reject"
    THEN [type |-> "TypeError", status |-> 0, msg |-> o.msg, at |-> a]
    ELSE [type |-> "PropstackError", status |-> 429, msg |-> "", at |-> a]

\* the error is a 429 or a transport error (what fetch() or the read of a
\* response body rejects with when the connection fails)
IsTransientError(err) ==
    \/ err.type = "TypeError"
    \/ (err.type = "PropstackError" /\ err.status = 429)

\* C5: a request ends with a transient failure (429 or transport error)
\* only after its 4th attempt failed transiently, the failure thrown is the
\* one of that 4th attempt, and a request whose last attempt failed
\* transiently never returns a value.
C5_TransientOnlyAfterBudget ==
    /\ (rResult.kind = "throw" /\ IsTransientError(rResult.err))
       => /\ Len(fetchLog) = 4
          /\ IsTransient(OutcomeAt(4))
          /\ rResult.err = TransientErrorOf(OutcomeAt(4), 3)
    /\ (Len(fetchLog) >= 1 /\ IsTransient(OutcomeAt(Len(fetchLog))))
       => /\ rResult.kind /= "return"
          /\ rPc = "done" => (Len(fetchLog) = 4 /\ rResult.kind = "throw")

(***************************************************************************)
(* Properties of the paginated accumulations (checked under SpecWalk)      *)
(***************************************************************************)

\* the tool returned a result built from the accumulated items
WalkSucceeded ==
    wPc = "done" /\ wResult.kind \in {"summary", "report", "noMatch", "noProfiles"}

\* C6: at the end of a walk the number of accumulated items does not exceed
\* the cap, and against an upstream that pages its items by offset and
\* reports their number as total it equals min(total, cap).
C6_CountIsMinTotalCap ==
    (WalkSucceeded /\ lastPer > 0)
    => /\ Len(items) <= Cap
       /\ upMode = "offset" => Len(items) = Min(upCount, Cap)

\* C7: a walk that ends at the cap with fewer items than the total the
\* upstream reported returns a result that carries a truncation marker.
C7_TruncationFlagged ==
    (WalkSucceeded /\ lastTotal /= NoTotal /\ Len(items) < lastTotal /\ Len(items) >= Cap)
    => wResult.warnings /= <<>>

\* C8: every walk eventually stops requesting pages and the tool returns,
\* whatever pages and totals the upstream answers with: each answered page
\* after which the walk goes on has added items to the accumulated ones,
\* whose number is capped, so that no walk goes on for ever.
C8_WalkTerminates ==
    [][(wPc = "walk" /\ wPc' = "walk") => Len(items') > Len(items)]_vars

\* C9: after each answered page the walk has stopped exactly if the page
\* held fewer items than requested, or the accumulated count has reached the
\* reported total, or it has reached the cap.
C9_StopsExactlyAtFirstStopCondition ==
    (lastPer > 0 /\ failedPage = 0)
    => ((wPc = "done")
        <=> \/ lastN < lastPer
            \/ (lastTotal /= NoTotal /\ Len(items) >= lastTotal)
            \/ Len(items) >= Cap)

\* C10: once a page request has thrown, the tool has returned the error
\* result of exactly that error: it carries no summary or report of the
\* pages gathered before, and no later page was requested.
C10_PageFailureFailsOperation ==
    failedPage /= 0
    => /\ wPc = "done"
       /\ page = failedPage
       /\ wResult.kind = "error"
       /\ wResult.err = failedErr
       /\ failedErr \in WalkErrors
       /\ wResult.outOf = -1
       /\ wResult.shownTotal = -1
       /\ wResult.warnings = <<>>

C10_Witness ==
    /\ failedPage >= 3
    /\ Len(items) >= 200
    /\ wPc = "done"
    /\ wResult.kind = "error"
    /\ wResult.err = failedErr

\* the profile walk against the upstream that pages its items by offset
ProfileWalkByOffset == op = "match_contacts_to_property" /\ upMode = "offset"

\* C30: in the search-profile walk against an upstream that serves page p
\* of size s as the items at offsets (p-1)*s .. p*s-1, no upstream item is
\* ever accumulated twice, and when the walk has ended the accumulated
\* items are the first min(total, cap) upstream items, for every cap.
C30_ProfilesOnceAndInOrder ==
    ProfileWalkByOffset =>
        /\ \A i, j \in 1..Len(items) : items[i] = items[j] => i = j
        /\ WalkSucceeded => items = Slice(0, Min(upCount, Cap))

(***************************************************************************)
(* Properties of the fan-out tools (checked under SpecFan)                 *)
(***************************************************************************)

\* the number of calls the tool fans out
FanWidth == IF fOp = "full_contact_360" THEN 4 ELSE 3

\* C11: all k calls (4 for full_contact_360, 3 for the property report) are
\* issued before any of them settles or is awaited; the tool returns only
\* after all k have settled, each exactly once, and the settled array then
\* holds exactly one outcome per call, the one that call settled with,
\* whatever the other calls did and in whatever order they completed.
C11_AllIssuedAllSettled ==
    /\ Len(fCalls) = FanWidth
    /\ (\E i \in 1..Len(fCalls) : fCalls[i].st /= "idle")
           => \A j \in 1..Len(fCalls) : fCalls[j].st /= "idle"
    /\ \A i \in 1..Len(fCalls) :
           IsSettled(fCalls[i]) <=> (\E x \in 1..Len(fOrder) : fOrder[x] = i)
    /\ \A x, y \in 1..Len(fOrder) : fOrder[x] = fOrder[y] => x = y
    /\ fPc = "done" =>
           /\ Len(fOrder) = FanWidth
           /\ Len(fSettled) = FanWidth
           /\ \A i \in 1..FanWidth :
                  /\ fSettled[i] \in SettleOutcomes(i)
                  /\ fSettled[i] = fCalls[i]

\* the last call of the array fails first, and its siblings still complete
\* with data afterwards
C11_Witness ==
    /\ fPc = "done"
    /\ fOp = "full_contact_360"
    /\ fOrder = <<4, 2, 1, 3>>
    /\ fSettled[4].st = "rejected"
    /\ fSettled[2] = Fulfilled(2)
    /\ fSettled[1] = Fulfilled(1)
    /\ fSettled[3].st = "rejected"

\* the call was fulfilled with the entity or a list
Delivered(c) == c.st = "fulfilled" /\ c.v = "object"

\* C12: when the essential call (contact fetch / property fetch) is rejected
\* the tool returns errorResult for its reason and builds no report, even if
\* every other call was fulfilled; when it has delivered the entity the tool
\* returns the report, whatever the other calls settled with.
C12_EssentialDecidesFailure ==
    fPc = "done" =>
        /\ fSettled[1].st = "rejected" =>
               /\ fResult.kind = "error"
               /\ fResult.err = fSettled[1].err
               /\ fResult.entity = FanEntity(fOp)
        /\ Delivered(fSettled[1]) => fResult.kind = "report"

\* C13: when the essential call has delivered the entity the result is the
\* report with one section per non-essential call; the sections flagged as
\* failed are exactly those of the rejected calls, the warnings name exactly
\* the rejected calls, and the trailing note is present iff at least one
\* non-essential call was rejected.
C13_FailedSectionsExact ==
    (fPc = "done" /\ Delivered(fSettled[1])) =>
        /\ fResult.kind = "report"
        /\ Len(fResult.sections) = FanWidth
        /\ \A i \in 2..FanWidth :
               /\ fResult.sections[i].name = FanCalls(fOp)[i]
               /\ fResult.sections[i].state = "failed" <=> fSettled[i].st = "rejected"
               /\ fSettled[i].st = "rejected" => fResult.sections[i].err = fSettled[i].err
        /\ {fResult.warnings[x] : x \in 1..Len(fResult.warnings)}
               = {WarningName(FanCalls(fOp)[i]) :
                     i \in {j \in 2..FanWidth : fSettled[j].st = "rejected"}}
        /\ fResult.note <=> \E i \in 2..FanWidth : fSettled[i].st = "rejected"

(***************************************************************************)
(* Properties of the scoring step (checked under SpecScore)                *)
(***************************************************************************)

\* the elements of a sequence
Elems(q) == {q[i] : i \in 1..Len(q)}

\* the profile a MatchResult was computed from
ProfileOf(r) == sProfiles[r.profileId]

\* the dimensions a MatchResult added to maxScore
ConsideredDims(r) == Elems(r.matches) \cup Elems(r.mismatches)

RangeDims == {"price", "base_rent", "number_of_rooms", "living_space"}

\* lower bound, upper bound of the profile and value of the property for a
\* range dimension
RangeFrom(sp, dim) ==
    CASE dim = "price" -> sp.price
      [] dim = "base_rent" -> sp.base_rent
      [] dim = "number_of_rooms" -> sp.number_of_rooms
      [] dim = "living_space" -> sp.living_space

RangeTo(sp, dim) ==
    CASE dim = "price" -> sp.price_to
      [] dim = "base_rent" -> sp.base_rent_to
      [] dim = "number_of_rooms" -> sp.number_of_rooms_to
      [] dim = "living_space" -> sp.living_space_to

RangeValue(property, dim) ==
    CASE dim = "price" -> property.price
      [] dim = "base_rent" -> property.base_rent
      [] dim = "number_of_rooms" -> property.number_of_rooms
      [] dim = "living_space" -> property.living_space

\* the profile holds a constraint for the dimension (the field is neither
\* absent nor null)
Specifies(sp, dim) ==
    CASE dim = "marketing_type" -> sp.marketing_type.t = "str"
      [] dim = "city" -> sp.cities.t = "list"
      [] dim = "rs_type" -> sp.rs_types.t = "list"
      [] OTHER -> RangeFrom(sp, dim).t = "num" \/ RangeTo(sp, dim).t = "num"

\* the property holds a value for the dimension
HasValue(property, dim) ==
    CASE dim = "marketing_type" -> property.marketing_type.t = "str"
      [] dim = "city" -> property.city.t = "str"
      [] dim = "rs_type" -> property.rs_type.t = "str"
      [] OTHER -> RangeValue(property, dim).t = "num"

\* C14: a dimension adds to score or maxScore only when the profile
\* specifies a constraint for it and the property has a value for it (a
\* field that is absent or null adds nothing); the reference property
\* {BUY, Berlin, 350000} against the profile {RENT, cities [Munich]} gives
\* score 0 and the profile is not among the results.
C14_OnlySpecifiedDimensionsCount ==
    sPc = "done" =>
        /\ \A i \in 1..Len(sScored) :
               \A dim \in ConsideredDims(sScored[i]) :
                   Specifies(ProfileOf(sScored[i]), dim) /\ HasValue(sProperty, dim)
        /\ (sProperty = RefProperty /\ sProfiles = WithIds(<<RentMunich>>)) =>
               /\ sScored[1].score = 0
               /\ sResults = <<>>

\* the weights named by the specification
SpecWeights ==
    [marketing_type |-> 3, city |-> 3, price |-> 2, base_rent |-> 2,
     number_of_rooms |-> 2, living_space |-> 1, rs_type |-> 2]

RECURSIVE SumSpecWeights(_)
SumSpecWeights(dims) ==
    IF dims = {} THEN 0
    ELSE LET d == CHOOSE x \in dims : TRUE
         IN  SpecWeights[d] + SumSpecWeights(dims \ {d})

\* C15: score is the sum of the weights (3, 3, 2, 2, 2, 1, 2) of the
\* considered dimensions that match and maxScore the sum of the weights of
\* all considered dimensions; {BUY, Berlin, 350000} against {BUY, cities
\* [Berlin, Potsdam], price 300000..400000} gives 8 of 8 and no mismatch.
C15_ScoreIsSumOfWeights ==
    sPc = "done" =>
        /\ \A i \in 1..Len(sScored) :
               /\ sScored[i].score = SumSpecWeights(Elems(sScored[i].matches))
               /\ sScored[i].maxScore = SumSpecWeights(ConsideredDims(sScored[i]))
               /\ Elems(sScored[i].matches) \cap Elems(sScored[i].mismatches) = {}
        /\ (sProperty = RefProperty /\ sProfiles = WithIds(<<BuyBerlin>>)) =>
               /\ sScored[1].score = 8
               /\ sScored[1].maxScore = 8
               /\ sScored[1].mismatches = <<>>

C15_Witness ==
    /\ sPc = "done"
    /\ sProperty = RefProperty
    /\ sProfiles = WithIds(<<BuyBerlin>>)
    /\ sScored[1].matches = <<"marketing_type", "city", "price">>
    /\ sResult.kind = "matches"

\* C16: every scored profile has 0 <= score <= maxScore, and no MatchResult
\* with score 0 is in results or in the returned list.
C16_ScoreBounds ==
    sPc = "done" =>
        /\ \A i \in 1..Len(sScored) :
               0 <= sScored[i].score /\ sScored[i].score <= sScored[i].maxScore
        /\ \A i \in 1..Len(sResults) : sResults[i].score > 0
        /\ \A i \in 1..Len(sResult.lines) : sResult.lines[i].score > 0

\* a profile considered on two dimensions and matching none, next to one
\* that is kept
C16_Witness ==
    /\ sPc = "done"
    /\ \E i \in 1..Len(sScored) : sScored[i].score = 0 /\ sScored[i].maxScore = 6
    /\ Len(sResults) = 1
    /\ Len(sScored) = 2

\* C17: a considered range dimension (price, base rent, rooms, living
\* space) is matched exactly when from <= v <= to, a bound that is null or
\* absent imposing no limit; both bounds are inclusive.
C17_RangeInclusive ==
    sPc = "done" =>
        \A i \in 1..Len(sScored) :
            \A dim \in RangeDims \cap ConsideredDims(sScored[i]) :
                LET from == RangeFrom(ProfileOf(sScored[i]), dim)
                    to == RangeTo(ProfileOf(sScored[i]), dim)
                    v == RangeValue(sProperty, dim)
                IN  (dim \in Elems(sScored[i].matches))
                        <=> /\ (from.t = "num" => from.n <= v.n)
                            /\ (to.t = "num" => v.n <= to.n)

\* the value equal to both bounds
C17_Witness ==
    /\ sPc = "done"
    /\ sProperty = RefProperty
    /\ Len(sProfiles) = 1
    /\ sProfiles[1].price = Num(350000)
    /\ sProfiles[1].price_to = Num(350000)
    /\ sScored[1].matches = <<"price">>

\* a before b in the ranking
RankedBefore(a, b) ==
    \/ a.score > b.score
    \/ a.score = b.score /\ Len(a.mismatches) <= Len(b.mismatches)

\* C18: the returned MatchResults are ordered by score descending and,
\* among equal scores, by number of mismatches ascending (every adjacent
\* pair of results, and of the listed results).
C18_RankedOrder ==
    sPc = "done" =>
        /\ \A i \in 1..(Len(sResults) - 1) : RankedBefore(sResults[i], sResults[i + 1])
        /\ \A i \in 1..(Len(sResult.lines) - 1) :
               RankedBefore(sResult.lines[i], sResult.lines[i + 1])

\* three profiles of equal score listed in the reverse of their input order
C18_Witness ==
    /\ sPc = "done"
    /\ sProperty = RefProperty
    /\ sProfiles = WithIds(<<BuyElsewhereDear, BuyElsewhere, BuyOnly>>)
    /\ Len(sResult.lines) = 3
    /\ sResult.lines[1].profileId = 3
    /\ sResult.lines[3].profileId = 1
    /\ sResult.lines[1].score = sResult.lines[3].score

\* C19: at most 20 results are listed, they are the first 20 of the ranked
\* list, and the reported 'found' count is the number of all scored
\* profiles with non-zero score, also when that exceeds 20.
C19_TopTwentyAndFound ==
    sPc = "done" =>
        /\ Len(sResult.lines) <= 20
        /\ Len(sResult.lines) = Min(20, Len(sResults))
        /\ \A i \in 1..Len(sResult.lines) : sResult.lines[i] = sResults[i]
        /\ sResult.showing = Len(sResult.lines)
        /\ sResult.found = Cardinality({i \in 1..Len(sScored) : sScored[i].score /= 0})
        /\ sResult.outOf = Len(sProfiles)

\* 24 profiles with non-zero score, 20 of them listed
C19_Witness ==
    /\ sPc = "done"
    /\ sResult.kind = "matches"
    /\ sResult.found = 24
    /\ Len(sResult.lines) = 20
    /\ Len(sProfiles) = 30

\* positions of the profiles whose active flag is false, null or missing
InactivePositions == {i \in 1..Len(sProfiles) : sProfiles[i].active /= "true"}

\* C29: only active search profiles are scored: a profile whose active flag
\* is false, null or missing appears neither among the scored profiles nor
\* in the ranked results nor in the listed lines, and the reported 'found'
\* count counts active profiles only, whatever the profile's criteria.
C29_InactiveNeverMatched ==
    sPc = "done" =>
        /\ \A i \in InactivePositions :
               /\ \A k \in 1..Len(sScored) : sScored[k].profileId /= i
               /\ \A k \in 1..Len(sResults) : sResults[k].profileId /= i
               /\ \A k \in 1..Len(sResult.lines) : sResult.lines[k].profileId /= i
        /\ sResult.found =
               Cardinality({r \in Elems(sResults) : r.profileId \notin InactivePositions})
        /\ sResult.found <= Len(sProfiles) - Cardinality(InactivePositions)

\* an inactive profile with the criteria of the active one next to it: only
\* the active one is found
C29_Witness ==
    /\ sPc = "done"
    /\ Len(sProfiles) = 2
    /\ sProfiles[1].active = "null"
    /\ sProfiles[2].active = "true"
    /\ sProfiles[1].cities = sProfiles[2].cities
    /\ sProfiles[1].price_to = sProfiles[2].price_to
    /\ sResult.kind = "matches"
    /\ sResult.found = 1
    /\ sResult.lines[1].profileId = 2
    /\ sResult.lines[1].score > 0

(***************************************************************************)
(* Properties of the pipeline aggregation (checked under SpecAgg)          *)
(***************************************************************************)

AggSucceeded == aPc = "done" /\ aResult.kind = "summary"

RECURSIVE SumOver(_, _)
SumOver(f, keys) ==
    IF keys = {} THEN 0
    ELSE LET k == CHOOSE x \in keys : TRUE
         IN  f[k] + SumOver(f, keys \ {k})

\* C21: after the aggregation of any list of deals every deal is counted in
\* exactly one stage bucket: the bucket counts add up to the number of
\* deals (in the buckets the loop has left and in the summary returned),
\* each count is the size of the bucket's member list, and the member lists
\* are pairwise disjoint and together hold every deal.
C21_BucketsPartitionDeals ==
    aPc = "done" =>
        /\ SumOver([k \in DOMAIN aStats |-> aStats[k].count], DOMAIN aStats) = Len(aDeals)
        /\ AggSucceeded =>
               SumOver([k \in DOMAIN aResult.stages |-> aResult.stages[k].count],
                       DOMAIN aResult.stages) = Len(aDeals)
        /\ \A k \in DOMAIN aStats :
               /\ aStats[k].count = Len(aStats[k].deals)
               /\ Cardinality(Elems(aStats[k].deals)) = Len(aStats[k].deals)
        /\ \A k1, k2 \in DOMAIN aStats :
               k1 /= k2 => Elems(aStats[k1].deals) \cap Elems(aStats[k2].deals) = {}
        /\ UNION {Elems(aStats[k].deals) : k \in DOMAIN aStats} = 1..Len(aDeals)

\* the stages of all pipelines
AllStages ==
    UNION {Elems(aPipelines[i].deal_stages.l) : i \in 1..Len(aPipelines)}

\* the bucket key the deal is to be filed under
ExpectedKey(d) ==
    IF d.deal_stage_id.t /= "num" THEN "No stage"
    ELSE IF \E s \in AllStages : s.id = d.deal_stage_id.n
    THEN LET s == CHOOSE x \in AllStages : x.id = d.deal_stage_id.n
         IN  IF s.name.t = "str" THEN s.name.s ELSE "Unnamed"
    ELSE "Stage #" \o DecimalText(d.deal_stage_id.n)

\* C22: the bucket of a deal is keyed by the stage's name when its stage id
\* is in the pipeline lookup, by a synthetic key embedding the id when it is
\* not, and by "No stage" when the deal has no stage id; no deal is dropped:
\* the aggregation of any fetched deals returns the summary with every deal
\* in the bucket of its key.
C22_BucketKeyResolution ==
    aPc = "done" =>
        /\ aResult.kind = "summary"
        /\ \A i \in 1..Len(aDeals) :
               /\ ExpectedKey(aDeals[i]) \in DOMAIN aStats
               /\ i \in Elems(aStats[ExpectedKey(aDeals[i])].deals)

\* the value the deal is to contribute
ExpectedValue(d) ==
    IF d.sold_price.t = "num" THEN d.sold_price.n
    ELSE IF d.property.t = "obj" /\ d.property.price.t = "num" THEN d.property.price.n
    ELSE 0

\* C23: the value of a bucket is the sum over its deals of the sold price if
\* present, else the linked property's price if present, else 0; deals with
\* (no sold price, property 200000), (no sold price, property 300000) and
\* (sold price 500000) in one bucket give 1000000.
C23_BucketValue ==
    AggSucceeded =>
        /\ \A k \in DOMAIN aStats :
               aStats[k].value =
                   SumOver([i \in 1..Len(aDeals) |-> ExpectedValue(aDeals[i])],
                           Elems(aStats[k].deals))
        /\ \A k \in DOMAIN aStats : aResult.stages[k].value = aStats[k].value
        /\ aDeals = WithDealIds(<<Deal200, Deal300, Deal500>>) =>
               /\ DOMAIN aStats = {"New"}
               /\ aStats["New"].value = 1000000

C23_Witness ==
    /\ AggSucceeded
    /\ aDeals = WithDealIds(<<Deal200, Deal300, Deal500>>)
    /\ aResult.stages["New"].count = 3
    /\ aResult.totalValue = 1000000

\* now minus the timestamp exceeds 14 days
OlderThan14Days(ts) ==
    (aNow.d - ts.d) * 86400000 + (aNow.ms - ts.ms) > 14 * 86400000

\* the deal is to be listed as stale
ExpectedStale(d) ==
    IF d.updated_at.t = "str" THEN OlderThan14Days(d.updated_at)
    ELSE d.created_at.t = "str" /\ OlderThan14Days(d.created_at)

\* C24: a deal is in the stale list iff it has a last-update timestamp (its
\* update time, else its creation time) and now minus it exceeds 14 days; a
\* deal with neither is never stale; of deals updated 20 days, 20 days and
\* 1 day ago exactly the first two are stale.
C24_StaleExactly ==
    AggSucceeded =>
        /\ Elems(aStale) = {i \in 1..Len(aDeals) : ExpectedStale(aDeals[i])}
        /\ Len(aStale) = Cardinality(Elems(aStale))
        /\ aResult.staleCount = Len(aStale)
        /\ aDeals = WithDealIds(<<Deal200, Deal300, Deal500>>) => aStale = <<1, 2>>

\* the scenario next to a deal updated exactly 14 days ago
C24_Witness ==
    /\ AggSucceeded
    /\ aDeals = WithDealIds(<<Deal200, DealAtThreshold, DealUnknownStage>>)
    /\ aStale = <<1, 3>>

(***************************************************************************)
(* Totals against samples (checked under SpecFan)                          *)
(***************************************************************************)

\* C25: when the upstream's total count is larger than the number of
\* records aggregated, the result reports both numbers and warns that the
\* aggregates cover a sample: here for the deals and the activities of
\* property_performance_report.
C25_SampleReported ==
    (fPc = "done" /\ fOp = "property_performance_report" /\ fResult.kind = "report") =>
        \A i \in 2..Len(fSettled) :
            (fSettled[i].st = "fulfilled" /\ fSettled[i].total /= NoTotal
                /\ fSettled[i].total > fSettled[i].n)
            => /\ fResult.sections[i].total = fSettled[i].total
               /\ fResult.sections[i].count = fSettled[i].n
               /\ fResult.sampleWarnings /= <<>>

(***************************************************************************)
(* Properties of the failure results (checked under SpecTool)              *)
(***************************************************************************)

\* the kind a failure is to be classified as
FailureKind(err) ==
    IF err.type = "PropstackError"
    THEN CASE err.status = 401 -> "Unauthorized"
           [] err.status = 403 -> "Forbidden"
           [] err.status = 404 -> "NotFound"
           [] err.status = 422 -> "Validation"
           [] err.status = 429 -> "RateLimited"
           [] OTHER -> "Unknown"
    ELSE IF err.type = "TypeError" THEN "NetworkUnreachable"
    ELSE "Unknown"

\* the message that stands for a kind
KindText(kind) ==
    CASE kind = "Unauthorized" -> {"Invalid API key"}
      [] kind = "Forbidden" -> {"Insufficient permissions"}
      [] kind = "NotFound" -> {"not found"}
      [] kind = "Validation" -> {"Validation error"}
      [] kind = "RateLimited" -> {"Rate limited by Propstack API"}
      [] kind = "NetworkUnreachable" -> {"Error: Network error"}
      [] OTHER -> {"Propstack API error", "Error: message"}

\* C26: every failure a tool operation ends with (an HTTP error status, or
\* a transport error left after the retries) is returned classified as one
\* of Unauthorized, Forbidden, NotFound, Validation, RateLimited,
\* NetworkUnreachable, Unknown, and the result is distinguishable from a
\* success result: it is flagged as an error, never shaped like a success.
C26_FailureClassifiedAndFlagged ==
    (tPc = "done" /\ rResult.kind = "throw") =>
        /\ tResult.text \in KindText(FailureKind(rResult.err))
        /\ tResult.isError
        /\ tResult.isError /= ToolSuccess("Contact").isError

(***************************************************************************)
(* Properties of smart_lead_intake (checked under SpecIntake)              *)
(***************************************************************************)

\* positions of the contact writes and of the follow-up calls in the call log
WriteCalls == {k \in 1..Len(iCalls) : iCalls[k] \in {"update", "create"}}
FollowUpCalls ==
    {k \in 1..Len(iCalls) : iCalls[k] \in {"note", "pipelines", "deal", "reminder"}}

\* C27: the contact is written exactly once and in order: the dedup search
\* is made only with a phone or an email and completes before the write; a
\* found contact gets exactly one update and no create, otherwise exactly
\* one create and no update is issued; note, deal and reminder calls are
\* issued only after the write succeeded, and none of them when the search
\* or the write failed.
C27_ContactWrittenOnceInOrder ==
    /\ Cardinality(WriteCalls) <= 1
    /\ \A k \in 1..Len(iCalls) : iCalls[k] = "search" => (k = 1 /\ iArgs.contact)
    /\ (iArgs.contact /\ iPc /= "start") => (Len(iCalls) >= 1 /\ iCalls[1] = "search")
    /\ \A w \in WriteCalls :
           /\ iArgs.contact => (w = 2 /\ iPc /= "search")
           /\ iCalls[w] = IF iFound /= 0 THEN "update" ELSE "create"
    /\ \A f \in FollowUpCalls : iWritten /\ \E w \in WriteCalls : w < f
    /\ iWritten => Cardinality(WriteCalls) = 1
    /\ (iPc = "done" /\ ~iWritten) => (FollowUpCalls = {} /\ iResult.kind = "error")
    /\ (iPc = "done" /\ iResult.kind = "report") =>
           /\ iResult.action = (IF iFound /= 0 THEN "updated" ELSE "created")
           /\ iResult.contactId /= 0
           /\ iFound /= 0 => iResult.contactId = iFound

\* a found contact is updated, then note, deal and reminder are posted
C27_Witness ==
    /\ iPc = "done"
    /\ iFound = 7
    /\ iCalls = <<"search", "update", "note", "pipelines", "deal", "reminder">>
    /\ iResult.kind = "report"
    /\ iResult.action = "updated"

\* C28: once the contact is created or updated the reminder is always
\* issued and the report of what was done is returned: a failure of the
\* note call, of the deal call or of the pipeline lookup never prevents the
\* reminder and never makes the whole result an error.
C28_ReminderAndReportAfterWrite ==
    ((iPc = "done" \/ iExited) /\ iWritten) =>
        /\ \E k \in 1..Len(iCalls) : iCalls[k] = "reminder"
        /\ iResult.kind = "report"
        /\ iResult.reminder /= "none"
        /\ iResult.note = "none" <=> ~iArgs.note

====
